---- MODULE Spec2Model ----
(***************************************************************************)
(* Model of the email retrieval and delivery subsystem:                    *)
(*   src/src/tools/email/imap_smtp_client.py   (IMAPSMTPClient)            *)
(*   src/src/tools/email/connection_manager.py (EmailConnectionManager,    *)
(*                                  IMAPConnectionPool, handle_email_errors)*)
(*                                                                         *)
(* One IMAPSMTPClient talks to one mail server.  Every library call the    *)
(* client makes (imaplib / smtplib) has an outcome chosen by the           *)
(* environment: a success status, a failure status, or an exception.       *)
(* A read session is identified by a positive number; 0 stands for None.   *)
(***************************************************************************)
EXTENDS Integers, Sequences, FiniteSets, TLC

VARIABLES
    connected,        \* BaseEmailClient._connected
    imap_pool,        \* IMAPSMTPClient.imap_pool is not None
    pool_connection,  \* IMAPConnectionPool.connection (0 = None)
    pool_selected,    \* folder selected on the pooled session ("" = none)
    smtp_connection,  \* IMAPSMTPClient.smtp_connection (0 = None)
    open_read,        \* read sessions created and not yet logged out
    next_read,        \* number of read sessions created so far
    open_smtp,        \* write sessions created and not yet quit
    used_smtp,        \* write sessions a send_reply call has used
    next_smtp,        \* number of write sessions created so far
    last,             \* what the last client operation did and returned
    retry_in,         \* input of the last retry_on_failure run
    retry_out,        \* its outcome
    search_in,        \* time of a fetch call and one message of the inbox
    search_out,       \* the search criteria issued and whether it matches
    exec_in,          \* input of an execute_imap / execute_smtp_operation run
    exec_out,         \* its outcome
    create_in,        \* outcomes of the steps of create_*_connection
    create_out,       \* what the two functions raise
    decode_in,        \* a raw message handed to EmailParser.extract_email_info
    decode_out,       \* the Email values decoded from it so far
    reply_in,         \* arguments of EmailParser.create_reply_message
    reply_out,        \* the reply messages built from them so far
    race,             \* two callers sharing one IMAPConnectionPool
    flow              \* the draft loop of the triage workflow for one email

vars == <<connected, imap_pool, pool_connection, pool_selected,
          smtp_connection, open_read, next_read, open_smtp, used_smtp,
          next_smtp, last, retry_in, retry_out, search_in, search_out,
          exec_in, exec_out, create_in, create_out, decode_in, decode_out,
          reply_in, reply_out, race, flow>>

parserVars == <<decode_in, decode_out, reply_in, reply_out, race, flow>>

auxVars ==
    <<search_in, search_out, exec_in, exec_out, create_in, create_out,
      parserVars>>

clientVars == <<connected, imap_pool, pool_connection, pool_selected,
                smtp_connection, open_read, next_read, open_smtp, used_smtp,
                next_smtp, last>>

(***************************************************************************)
(* Bounds of the model.                                                    *)
(***************************************************************************)
MaxRead == 2       \* read sessions the server accepts in one behaviour
MaxSmtp == 2       \* write sessions the server accepts in one behaviour
MaxMsg == 3        \* server-assigned ids are 1..MaxMsg
MaxResults == 3    \* max_results ranges over 0..MaxResults
MaxRetries == 3    \* max_retries ranges over 0..MaxRetries
MaxNow == 47       \* a call is made at hour lookback_hours..MaxNow
MaxParts == 3      \* a multi-part message has 0..MaxParts parts
MaxSubject == 4    \* a subject has 0..MaxSubject characters
MaxRace == 3       \* read sessions two racing callers create
MaxTrials == 5     \* write_draft_email is not modelled beyond this many trials

(***************************************************************************)
(* Program constants.                                                      *)
(***************************************************************************)
drafts_folder == "Drafts"
alt_folders == <<"INBOX.Drafts", "[Gmail]/Drafts", "Draft">>
default_max_retries == 3
backoff_factor == 2

(***************************************************************************)
(* The client-side state the operations work on, as one record.            *)
(***************************************************************************)
\* What one call has done so far: the session creations and logins it
\* attempted, how the first creation ended, and the session stored, the
\* probe's answer and the session created in its last get_connection.
NoTrace ==
    [creates |-> 0, logins |-> 0, first |-> "-", gets |-> 0, stored |-> 0,
     storedOpen |-> FALSE, probe |-> "-", created |-> 0]

World ==
    [connected |-> connected, imap_pool |-> imap_pool,
     conn |-> pool_connection, sel |-> pool_selected,
     open |-> open_read, next |-> next_read, trace |-> NoTrace]

NoGc == [called |-> FALSE, stored |-> 0, probe |-> "-", created |-> 0,
         returned |-> 0, raised |-> "none"]

(***************************************************************************)
(* EmailConnectionManager.create_imap_connection.                          *)
(* ce.open : outcome of opening the transport (IMAP4_SSL / IMAP4+starttls) *)
(* ce.login: outcome of login: "ok", "error" (IMAP4.error, the server      *)
(*           answers NO), "abort" (IMAP4.abort, a subclass of IMAP4.error) *)
(*           or "oserror".                                                 *)
(***************************************************************************)
CreateEnvs ==
    {[open |-> "oserror", login |-> "-"], [open |-> "error", login |-> "-"]}
    \cup {[open |-> "ok", login |-> l] :
            l \in {"ok", "error", "abort", "oserror"}}

\* the constructor call and, when it returns, the login call
attempted(w, ce) ==
    [w EXCEPT !.trace.creates = @ + 1,
              !.trace.logins = IF ce.open = "ok" THEN @ + 1 ELSE @,
              !.trace.first = IF @ # "-" THEN @
                              ELSE IF ce.open # "ok" THEN "open failed"
                              ELSE IF ce.login # "ok" THEN "login failed"
                              ELSE "ok"]

create_imap_connection(w, ce) ==
    IF ce.open # "ok" THEN
        [w |-> attempted(w, ce), raised |-> "ConnectionError", conn |-> 0]
    ELSE IF ce.login \in {"error", "abort"} THEN
        [w |-> attempted(w, ce), raised |-> "AuthenticationError", conn |-> 0]
    ELSE IF ce.login = "oserror" THEN
        [w |-> attempted(w, ce), raised |-> "ConnectionError", conn |-> 0]
    ELSE
        [w |-> [attempted(w, ce) EXCEPT !.open = @ \cup {w.next + 1},
                                        !.next = @ + 1],
         raised |-> "none", conn |-> w.next + 1]

\* The server accepts at most MaxRead sessions in one behaviour.
CreateEnvsFor(w) ==
    {ce \in CreateEnvs : ce.login = "ok" => w.next < MaxRead}

(***************************************************************************)
(* The teardown both IMAPConnectionPool.close and _create_new_connection   *)
(* run on a stored session: try: close(); logout()  except: pass.          *)
(* imaplib allows CLOSE only in state SELECTED, so close() raises when no  *)
(* folder is selected, and logout() is then skipped.                       *)
(***************************************************************************)
TeardownEnvsFor(w) ==
    IF w.conn = 0 THEN {"-"}
    ELSE IF w.sel = "" \/ w.conn \notin w.open THEN {"closeRaises"}
    ELSE {"ok", "closeRaises"}

Teardown(w, td) ==
    IF w.conn # 0 /\ td = "ok" /\ w.sel # ""
    THEN [w EXCEPT !.open = @ \ {w.conn}, !.sel = ""]
    ELSE w

\* IMAPConnectionPool._is_connection_alive
ProbeEnvsFor(w) ==
    IF w.conn = 0 THEN {"-"}
    ELSE IF w.conn \notin w.open THEN {"raise"}   \* NOOP is illegal after LOGOUT
    ELSE {"OK", "NO", "raise"}

is_connection_alive_nostatus(w, probe) ==
    IF w.conn = 0 THEN FALSE ELSE probe \in {"OK", "NO"}

is_connection_alive(w, probe) ==
    IF w.conn = 0 THEN FALSE ELSE probe = "OK"

\* IMAPConnectionPool._create_new_connection, after the teardown of the
\* stored session: self.connection = create_imap_connection(...)
store_new_connection(w1, r) ==
    IF r.raised # "none"
    THEN [w |-> r.w, raised |-> r.raised, conn |-> 0]
    ELSE [w |-> [r.w EXCEPT !.conn = r.conn, !.sel = ""],
          raised |-> "none", conn |-> r.conn]

create_after_teardown(w1, ce) ==
    store_new_connection(w1, create_imap_connection(w1, ce))

\* IMAPConnectionPool._create_new_connection
create_new_connection(w, td, ce) ==
    create_after_teardown(Teardown(w, td), ce)

(***************************************************************************)
(* IMAPConnectionPool.get_connection.  ge = [probe, td, ce]                *)
(***************************************************************************)
NoCe == [open |-> "-", login |-> "-"]
NoGe == [probe |-> "-", td |-> "-", ce |-> NoCe]

GetConnEnvsFor(w) ==
    {[probe |-> p, td |-> "-", ce |-> NoCe] :
        p \in ProbeEnvsFor(w) \cap {"OK"}}
    \cup {[probe |-> p, td |-> t, ce |-> c] :
            p \in ProbeEnvsFor(w) \ {"OK"},
            t \in TeardownEnvsFor(w),
            c \in CreateEnvsFor(w)}

\* the record of one get_connection: w is the state it found
traced(w, ge, created, after) ==
    [after EXCEPT !.trace.gets = @ + 1,
                  !.trace.stored = w.conn,
                  !.trace.storedOpen = w.conn \in w.open,
                  !.trace.probe = ge.probe,
                  !.trace.created = created]

\* return self.connection, after _create_new_connection
return_new_connection(w, ge, r) ==
    [w |-> traced(w, ge, r.conn, r.w), raised |-> r.raised, conn |-> r.conn,
     gc |-> [called |-> TRUE, stored |-> w.conn, probe |-> ge.probe,
             created |-> r.conn, returned |-> r.conn, raised |-> r.raised]]

get_connection(w, ge) ==
    IF w.conn = 0 \/ ~is_connection_alive(w, ge.probe) THEN
        return_new_connection(w, ge, create_new_connection(w, ge.td, ge.ce))
    ELSE
        [w |-> traced(w, ge, 0, w), raised |-> "none", conn |-> w.conn,
         gc |-> [called |-> TRUE, stored |-> w.conn, probe |-> ge.probe,
                 created |-> 0, returned |-> w.conn, raised |-> "none"]]

(***************************************************************************)
(* imaplib select: "OK" selects the folder; "NO" is returned, not raised,  *)
(* and leaves the session with no folder selected; "error" (IMAP4.error)   *)
(* and "oserror" are exceptions.                                           *)
(***************************************************************************)
SelectOutcomes == {"OK", "NO", "error", "oserror"}

Select_keeps_folder(w, folder, out) ==
    IF out = "OK" THEN [w EXCEPT !.sel = folder] ELSE w

Select(w, folder, out) ==
    IF out = "OK" THEN [w EXCEPT !.sel = folder]
    ELSE IF out = "NO" THEN [w EXCEPT !.sel = ""]
    ELSE w

(***************************************************************************)
(* handle_email_errors: an exception that escapes the wrapped function is  *)
(* turned into the return value None.                                      *)
(***************************************************************************)
handle_email_errors(r) ==
    IF r.raised # "none" THEN [r EXCEPT !.ret = "None", !.raised = "none"]
    ELSE r

(***************************************************************************)
(* IMAPSMTPClient.connect.  co = [ce, sel]                                 *)
(***************************************************************************)
NoCo == [ce |-> NoCe, sel |-> "-"]

ConnectEnvsFor(w) ==
    {[ce |-> c, sel |-> "-"] : c \in {x \in CreateEnvsFor(w) : x.login # "ok"}}
    \cup {[ce |-> c, sel |-> s] :
            c \in {x \in CreateEnvsFor(w) : x.login = "ok"},
            s \in SelectOutcomes}

\* imap_conn.select('INBOX'); self._connected = True; return True
\* except Exception: self._connected = False; return False
connect_select(g, sel) ==
    IF g.raised # "none" THEN
        [w |-> [g.w EXCEPT !.connected = FALSE], ret |-> "False",
         raised |-> "none"]
    ELSE IF sel \in {"OK", "NO"} THEN
        [w |-> [Select(g.w, "INBOX", sel) EXCEPT !.connected = TRUE],
         ret |-> "True", raised |-> "none"]
    ELSE
        [w |-> [g.w EXCEPT !.connected = FALSE], ret |-> "False",
         raised |-> "none"]

connect_body(w, co) ==
    connect_select(
        get_connection([w EXCEPT !.imap_pool = TRUE, !.conn = 0, !.sel = ""],
                       [probe |-> "-", td |-> "-", ce |-> co.ce]),
        co.sel)

connect(w, co) == handle_email_errors(connect_body(w, co))

(***************************************************************************)
(* IMAPSMTPClient.disconnect (with IMAPConnectionPool.close).              *)
(***************************************************************************)
disconnect(w, td) ==
    IF w.imap_pool
    THEN [Teardown(w, td) EXCEPT !.conn = 0, !.sel = "", !.imap_pool = FALSE,
                                 !.connected = FALSE]
    ELSE [w EXCEPT !.connected = FALSE]

connect_result_ignored(c) == [w |-> c.w, ok |-> TRUE]

\* if not self._connected: if not self.connect(): return ...
connect_result(c) == [w |-> c.w, ok |-> c.ret = "True"]

ensure_connected(w, co) ==
    IF w.connected THEN [w |-> w, ok |-> TRUE]
    ELSE connect_result(connect(w, co))

EnsureEnvsFor(w) == IF w.connected THEN {NoCo} ELSE ConnectEnvsFor(w)

(***************************************************************************)
(* Python list helpers.                                                    *)
(***************************************************************************)
Min(a, b) == IF a < b THEN a ELSE b
Max(a, b) == IF a > b THEN a ELSE b

\* s[start:] with Python's rule for a negative start
PySliceFrom(s, start) ==
    SubSeq(s,
           (IF start < 0 THEN Max(Len(s) + start, 0) ELSE Min(start, Len(s))) + 1,
           Len(s))

\* reversed(s)
Reversed(s) == [i \in 1..Len(s) |-> s[Len(s) + 1 - i]]

SeqRange(s) == {s[i] : i \in 1..Len(s)}

RECURSIVE AscendingSeq(_)
AscendingSeq(S) ==
    IF S = {} THEN <<>>
    ELSE LET m == CHOOSE x \in S : \A y \in S : x <= y
         IN <<m>> \o AscendingSeq(S \ {m})

(***************************************************************************)
(* The SEARCH of fetch_unanswered_emails.  The server lists the matching   *)
(* message sequence numbers in ascending order.  imaplib allows SEARCH     *)
(* only in state SELECTED and raises without sending it otherwise.         *)
(***************************************************************************)
SearchResults == {AscendingSeq(S) : S \in SUBSET (1..MaxMsg)}

NoSearch == [status |-> "-", ids |-> <<>>]

SearchEnvsFor(w) ==
    IF w.sel = "" THEN {[status |-> "raise", ids |-> <<>>]}
    ELSE {[status |-> "NO", ids |-> <<>>], [status |-> "raise", ids |-> <<>>]}
         \cup {[status |-> "OK", ids |-> s] : s \in SearchResults}

(***************************************************************************)
(* What happens to one message of the batch:                               *)
(*   "ok"    : _get_email_info returns the email; its sender is somebody   *)
(*             else                                                        *)
(*   "self"  : _get_email_info returns the email; its sender header holds  *)
(*             the client's own address after a display name               *)
(*   "none"  : the FETCH answers with a non-OK status                      *)
(*   "raise" : the FETCH or the decoding raises                            *)
(* A sender header and the client's address are sequences of characters.   *)
(***************************************************************************)
MsgKinds == {"ok", "self", "none", "raise"}

NoMsgs == [i \in {} |-> "none"]

email_address == <<"m", "@", "x">>

SenderOf(kind) ==
    IF kind = "self" THEN <<"M", " ", "<", "m", "@", "x", ">">>
    ELSE <<"b", "@", "y">>

\* Python's  t in s  on strings
Contains(s, t) ==
    \E i \in 0..(Len(s) - Len(t)) : SubSeq(s, i + 1, i + Len(t)) = t

batch_lowest(email_ids, max_results) ==
    Reversed(SubSeq(email_ids, 1, Min(max_results, Len(email_ids))))

\* reversed(email_ids[-max_results:])
batch(email_ids, max_results) ==
    Reversed(PySliceFrom(email_ids, 0 - max_results))

\* IMAPSMTPClient._get_email_info: None on a non-OK status and on every
\* exception, the email's information otherwise
get_email_info(kind) ==
    IF kind \in {"none", "raise"} THEN [none |-> TRUE, sender |-> <<>>]
    ELSE [none |-> FALSE, sender |-> SenderOf(kind)]

should_skip_email_never(email_info) == FALSE

\* IMAPSMTPClient._should_skip_email (the draft check is a stub: False)
should_skip_email(email_info) == Contains(email_info.sender, email_address)

next_after_failure_abort(todo) == <<>>

\* a message that yields nothing is passed over: the loop goes on with the
\* next id
next_after_failure(todo) == Tail(todo)

\* if email_info and not self._should_skip_email(email_info): append
keep_email(email_info) ==
    IF email_info.none THEN FALSE ELSE ~should_skip_email(email_info)

\* the for loop of fetch_unanswered_emails; an email is named by its id
RECURSIVE process_emails(_, _, _)
process_emails(todo, msgs, unanswered_emails) ==
    IF todo = <<>> THEN unanswered_emails
    ELSE IF get_email_info(msgs[Head(todo)]).none
    THEN process_emails(next_after_failure(todo), msgs, unanswered_emails)
    ELSE IF keep_email(get_email_info(msgs[Head(todo)]))
    THEN process_emails(Tail(todo), msgs,
                        Append(unanswered_emails, Head(todo)))
    ELSE process_emails(Tail(todo), msgs, unanswered_emails)

(***************************************************************************)
(* IMAPSMTPClient.fetch_unanswered_emails.                                 *)
(* fe = [co, ge, sel, search, msgs]                                        *)
(***************************************************************************)
FetchResult(w, emails, failed, ids, considered, searched, folder) ==
    [w |-> w, ret |-> "List", emails |-> emails, raised |-> "none",
     failed |-> failed, ids |-> ids, considered |-> considered,
     searched |-> searched, searchFolder |-> folder]

\* for email_id in reversed(email_ids[-max_results:]): ...
fetch_loop(w2, ids, todo, msgs) ==
    FetchResult(w2, process_emails(todo, msgs, <<>>), "-", ids, todo,
                TRUE, w2.sel)

\* status, messages = imap_conn.search(None, search_criteria) ...
fetch_search(w2, max_results, search, msgs) ==
    IF search.status # "OK"
    THEN FetchResult(w2, <<>>, "search", <<>>, <<>>, w2.sel # "", w2.sel)
    ELSE IF search.ids = <<>>
    THEN FetchResult(w2, <<>>, "-", <<>>, <<>>, TRUE, w2.sel)
    ELSE fetch_loop(w2, search.ids, batch(search.ids, max_results), msgs)

\* the try block of fetch_unanswered_emails with its except clause
fetch_try(g, max_results, fe) ==
    IF g.raised # "none"
    THEN FetchResult(g.w, <<>>, "get_connection", <<>>, <<>>, FALSE, "")
    ELSE IF fe.sel \notin {"OK", "NO"}
    THEN FetchResult(g.w, <<>>, "select", <<>>, <<>>, FALSE, "")
    ELSE fetch_search(Select(g.w, "INBOX", fe.sel), max_results, fe.search,
                      fe.msgs)

fetch_connected(c, max_results, fe) ==
    IF ~c.ok THEN FetchResult(c.w, <<>>, "connect", <<>>, <<>>, FALSE, "")
    ELSE fetch_try(get_connection(c.w, fe.ge), max_results, fe)

fetch_body(w, max_results, fe) ==
    fetch_connected(ensure_connected(w, fe.co), max_results, fe)

fetch_unanswered_emails(w, max_results, fe) ==
    handle_email_errors(fetch_body(w, max_results, fe))

FetchEnv(co, ge, sel, search, msgs) ==
    [co |-> co, ge |-> ge, sel |-> sel, search |-> search, msgs |-> msgs]

FetchEnvsSearch(co, ge, so, w2, max_results) ==
    UNION {{FetchEnv(co, ge, so, se, m) :
              m \in [SeqRange(batch(se.ids, max_results)) -> MsgKinds]} :
           se \in SearchEnvsFor(w2)}

FetchEnvsSelect(co, ge, g, max_results) ==
    IF g.raised # "none" THEN {FetchEnv(co, ge, "-", NoSearch, NoMsgs)}
    ELSE {FetchEnv(co, ge, so, NoSearch, NoMsgs) :
            so \in SelectOutcomes \ {"OK", "NO"}}
         \cup UNION {FetchEnvsSearch(co, ge, so, Select(g.w, "INBOX", so),
                                     max_results) : so \in {"OK", "NO"}}

FetchEnvsConnected(co, c, max_results) ==
    IF ~c.ok THEN {FetchEnv(co, NoGe, "-", NoSearch, NoMsgs)}
    ELSE UNION {FetchEnvsSelect(co, ge, get_connection(c.w, ge), max_results) :
                ge \in GetConnEnvsFor(c.w)}

FetchEnvsFor(w, max_results) ==
    UNION {FetchEnvsConnected(co, ensure_connected(w, co), max_results) :
           co \in EnsureEnvsFor(w)}

(***************************************************************************)
(* The folder selection of create_draft_reply.  outs[i] is the outcome of  *)
(* the i-th select the code issues: the configured drafts folder, then the *)
(* alternate names in order, then INBOX.                                   *)
(***************************************************************************)
NumFolders == Len(alt_folders) + 2

FolderAt(i) ==
    IF i = 1 THEN drafts_folder
    ELSE IF i <= Len(alt_folders) + 1 THEN alt_folders[i - 1]
    ELSE "INBOX"

Errors(k) == [i \in 1..k |-> "error"]

SelectChains ==
    {Errors(k) \o <<o>> : k \in 0..(NumFolders - 1), o \in SelectOutcomes}
    \ {Errors(k) : k \in 1..(NumFolders - 1)}

\* for alt_folder in [...]: try select; break / except IMAP4.error: continue
\* else: select('INBOX')
RECURSIVE select_alternates(_, _, _)
select_alternates(w, outs, i) ==
    IF i > Len(alt_folders) + 1 THEN
        IF outs[i] \in {"OK", "NO"}
        THEN [w |-> Select(w, "INBOX", outs[i]), folder |-> "INBOX",
              raised |-> "none"]
        ELSE [w |-> w, folder |-> "", raised |-> outs[i]]
    ELSE IF outs[i] \in {"OK", "NO"} THEN
        [w |-> Select(w, alt_folders[i - 1], outs[i]),
         folder |-> alt_folders[i - 1], raised |-> "none"]
    ELSE IF outs[i] = "error" THEN select_alternates(w, outs, i + 1)
    ELSE [w |-> w, folder |-> "", raised |-> outs[i]]

\* try: imap_conn.select(drafts_folder)  except imaplib.IMAP4.error: ...
select_drafts_folder(w, outs) ==
    IF outs[1] \in {"OK", "NO"} THEN
        [w |-> Select(w, drafts_folder, outs[1]), folder |-> drafts_folder,
         raised |-> "none"]
    ELSE IF outs[1] = "error" THEN select_alternates(w, outs, 2)
    ELSE [w |-> w, folder |-> "", raised |-> outs[1]]

append_result_any(status) == "True"

\* if result[0] == 'OK': return True  else: return False
append_result(status) == IF status = "OK" THEN "True" ELSE "False"

(***************************************************************************)
(* IMAPSMTPClient.create_draft_reply.                                      *)
(* de = [co, build, ge, selects, append]                                   *)
(***************************************************************************)
AppendOutcomes == {"OK", "NO", "raise"}

DraftResult(w, ret, failed, selects, append, folder) ==
    [w |-> w, ret |-> ret, raised |-> "none", failed |-> failed,
     selects |-> selects, append |-> append, appendFolder |-> folder]

\* result = imap_conn.append(drafts_folder, ...) and the return statements
draft_append(f, de) ==
    IF f.raised # "none"
    THEN DraftResult(f.w, "False", "select", de.selects, "-", "")
    ELSE IF de.append = "raise"
    THEN DraftResult(f.w, "False", "append", de.selects, de.append, f.folder)
    ELSE DraftResult(f.w, append_result(de.append),
                     IF de.append = "OK" THEN "-" ELSE "append",
                     de.selects, de.append, f.folder)

draft_select(g, de) ==
    IF g.raised # "none"
    THEN DraftResult(g.w, "False", "get_connection", <<>>, "-", "")
    ELSE draft_append(select_drafts_folder(g.w, de.selects), de)

\* the try block of create_draft_reply with its except clause
draft_connected(c, de) ==
    IF ~c.ok THEN DraftResult(c.w, "False", "connect", <<>>, "-", "")
    ELSE IF de.build # "ok"
    THEN DraftResult(c.w, "False", "build", <<>>, "-", "")
    ELSE draft_select(get_connection(c.w, de.ge), de)

draft_body(w, de) == draft_connected(ensure_connected(w, de.co), de)

create_draft_reply(w, de) == handle_email_errors(draft_body(w, de))

DraftEnv(co, build, ge, selects, append) ==
    [co |-> co, build |-> build, ge |-> ge, selects |-> selects,
     append |-> append]

DraftEnvsSelect(co, ge, g) ==
    IF g.raised # "none" THEN {DraftEnv(co, "ok", ge, <<>>, "-")}
    ELSE {DraftEnv(co, "ok", ge, ch, "-") :
            ch \in {x \in SelectChains :
                      select_drafts_folder(g.w, x).raised # "none"}}
         \cup {DraftEnv(co, "ok", ge, ch, a) :
                 ch \in {x \in SelectChains :
                           select_drafts_folder(g.w, x).raised = "none"},
                 a \in AppendOutcomes}

DraftEnvsConnected(co, c) ==
    IF ~c.ok THEN {DraftEnv(co, "-", NoGe, <<>>, "-")}
    ELSE {DraftEnv(co, "raise", NoGe, <<>>, "-")}
         \cup UNION {DraftEnvsSelect(co, ge, get_connection(c.w, ge)) :
                     ge \in GetConnEnvsFor(c.w)}

DraftEnvsFor(w) ==
    UNION {DraftEnvsConnected(co, ensure_connected(w, co)) :
           co \in EnsureEnvsFor(w)}

(***************************************************************************)
(* EmailConnectionManager.create_smtp_connection.                          *)
(* sw = [open, next]: the write sessions; me = [open, ehlo, tls, tls2,     *)
(* ehlo2, login] are the outcomes of the steps, and me.drop tells whether  *)
(* the server dropped the connection in the step that failed (smtplib then *)
(* closes the socket before it raises) or kept it.                         *)
(***************************************************************************)
smtp_port == 587
use_starttls == TRUE

SmtpWorld == [open |-> open_smtp, next |-> next_smtp]

\* the configuration of the provider the client was built for
provider_config == [smtp_port |-> smtp_port, use_starttls |-> use_starttls]

SmtpConfigs == [smtp_port : {25, 465, 587}, use_starttls : BOOLEAN]

\* smtplib.SMTP_SSL(...) when the port is 465, smtplib.SMTP(...) otherwise
OpenStep(config) == IF config.smtp_port = 465 THEN "SMTP_SSL" ELSE "SMTP"

starttls_due_by_flag(config) == config.use_starttls

\* if config.use_starttls and config.smtp_port != 465:
starttls_due(config) == config.use_starttls /\ config.smtp_port # 465

\* the function has no close() or quit(): a connection it opened and the
\* server did not drop is still open when the exception leaves it
left(me) == IF me.drop = "dropped" THEN "closed" ELSE "open"

SmtpFailed(sw, raised, steps, transport) ==
    [sw |-> sw, raised |-> raised, conn |-> 0, steps |-> steps,
     transport |-> transport]

\* connection.login(...) and return connection
smtp_login(sw, me, steps) ==
    IF me.login = "auth"
    THEN SmtpFailed(sw, "AuthenticationError", Append(steps, "login"),
                    left(me))
    ELSE IF me.login # "ok"
    THEN SmtpFailed(sw, "ConnectionError", Append(steps, "login"), left(me))
    ELSE [sw |-> [sw EXCEPT !.open = @ \cup {sw.next + 1}, !.next = @ + 1],
          raised |-> "none", conn |-> sw.next + 1,
          steps |-> Append(steps, "login"), transport |-> "session"]

StartTlsSteps_standard_only(me) == <<"starttls">>

\* try: starttls()  except Exception: starttls(context=<no verification>)
StartTlsSteps(me) ==
    IF me.tls = "ok" THEN <<"starttls">>
    ELSE <<"starttls", "starttls relaxed">>

\* the STARTTLS upgrade and the EHLO after it
smtp_upgrade(sw, me, steps) ==
    IF me.tls # "ok" /\ me.tls2 # "ok"
    THEN SmtpFailed(sw, "ConnectionError", steps \o StartTlsSteps(me),
                    left(me))
    ELSE IF me.ehlo2 # "ok"
    THEN SmtpFailed(sw, "ConnectionError",
                    steps \o StartTlsSteps(me) \o <<"ehlo">>, left(me))
    ELSE smtp_login(sw, me, steps \o StartTlsSteps(me) \o <<"ehlo">>)

create_smtp_connection(config, sw, me) ==
    IF me.open # "ok"
    THEN SmtpFailed(sw, "ConnectionError", <<OpenStep(config)>>, "none")
    ELSE IF me.ehlo # "ok"
    THEN SmtpFailed(sw, "ConnectionError", <<OpenStep(config), "ehlo">>,
                    left(me))
    ELSE IF starttls_due(config)
    THEN smtp_upgrade(sw, me, <<OpenStep(config), "ehlo">>)
    ELSE smtp_login(sw, me, <<OpenStep(config), "ehlo">>)

SmtpEnv(o, e, t, t2, e2, l, d) ==
    [open |-> o, ehlo |-> e, tls |-> t, tls2 |-> t2, ehlo2 |-> e2,
     login |-> l, drop |-> d]

NoMe == SmtpEnv("-", "-", "-", "-", "-", "-", "-")

\* ehlo() raises only when the server is gone; rejected credentials leave the
\* connection up; another failure of starttls() or login() does either
LoginOutcomes ==
    {<<"ok", "-">>, <<"auth", "kept">>, <<"smtpexc", "kept">>,
     <<"smtpexc", "dropped">>}

SmtpEnvsOf(config) ==
    {SmtpEnv("oserror", "-", "-", "-", "-", "-", "-"),
     SmtpEnv("ok", "smtpexc", "-", "-", "-", "-", "dropped")}
    \cup (IF config.use_starttls /\ config.smtp_port # 465
          THEN {SmtpEnv("ok", "ok", "fail", "smtpexc", "-", "-", d) :
                  d \in {"kept", "dropped"}}
               \cup {SmtpEnv("ok", "ok", t[1], t[2], "smtpexc", "-",
                             "dropped") :
                       t \in {<<"ok", "-">>, <<"fail", "ok">>}}
               \cup {SmtpEnv("ok", "ok", t[1], t[2], "ok", l[1], l[2]) :
                       t \in {<<"ok", "-">>, <<"fail", "ok">>},
                       l \in LoginOutcomes}
          ELSE {SmtpEnv("ok", "ok", "-", "-", "-", l[1], l[2]) :
                  l \in LoginOutcomes})

SmtpEnvs == SmtpEnvsOf(provider_config)

\* The server accepts at most MaxSmtp write sessions in one behaviour.
SmtpEnvsFor(sw) == {me \in SmtpEnvs : me.login = "ok" => sw.next < MaxSmtp}

(***************************************************************************)
(* IMAPSMTPClient.send_reply.  se = [co, build, me, send, quit]            *)
(***************************************************************************)
SendResult(w, sw, ret, raised, failed, smtp, sent, quit) ==
    [w |-> w, sw |-> sw, ret |-> ret, raised |-> raised, failed |-> failed,
     smtp |-> smtp, sent |-> sent, quit |-> quit, transport |-> "-",
     sends |-> 0]

send_and_quit_nofinally(sw, smtp_conn, send, quit) ==
    IF send # "ok"
    THEN [sw |-> sw, ret |-> "-", raised |-> "send", sends |-> 1]
    ELSE IF quit # "ok"
    THEN [sw |-> [sw EXCEPT !.open = @ \ {smtp_conn}], ret |-> "-",
          raised |-> "quit", sends |-> 1]
    ELSE [sw |-> [sw EXCEPT !.open = @ \ {smtp_conn}], ret |-> "True",
          raised |-> "none", sends |-> 1]

send_and_quit_resend(sw, smtp_conn, send, quit) ==
    IF quit # "ok"
    THEN [sw |-> [sw EXCEPT !.open = @ \ {smtp_conn}], ret |-> "-",
          raised |-> "quit", sends |-> IF send # "ok" THEN 2 ELSE 1]
    ELSE IF send # "ok"
    THEN [sw |-> [sw EXCEPT !.open = @ \ {smtp_conn}], ret |-> "-",
          raised |-> "send", sends |-> 2]
    ELSE [sw |-> [sw EXCEPT !.open = @ \ {smtp_conn}], ret |-> "True",
          raised |-> "none", sends |-> 1]

\* try: smtp_conn.send_message(...); return True   finally: smtp_conn.quit()
\* sends is the number of send_message calls made
send_and_quit(sw, smtp_conn, send, quit) ==
    IF quit # "ok"
    THEN [sw |-> [sw EXCEPT !.open = @ \ {smtp_conn}], ret |-> "-",
          raised |-> "quit", sends |-> 1]
    ELSE IF send # "ok"
    THEN [sw |-> [sw EXCEPT !.open = @ \ {smtp_conn}], ret |-> "-",
          raised |-> "send", sends |-> 1]
    ELSE [sw |-> [sw EXCEPT !.open = @ \ {smtp_conn}], ret |-> "True",
          raised |-> "none", sends |-> 1]

send_result(w, smtp_conn, se, q) ==
    [SendResult(w, q.sw, q.ret, q.raised, "-", smtp_conn, se.send, se.quit)
       EXCEPT !.transport = "session", !.sends = q.sends]

send_with(w, sw, se, m) ==
    IF m.raised # "none"
    THEN [SendResult(w, sw, "-", "create_smtp_connection", "-", 0, "-", "-")
            EXCEPT !.transport = m.transport]
    ELSE send_result(w, m.conn, se,
                     send_and_quit(m.sw, m.conn, se.send, se.quit))

\* the body of the try block of send_reply
send_try(w, sw, se) ==
    IF se.build # "ok"
    THEN SendResult(w, sw, "-", "build", "-", 0, "-", "-")
    ELSE send_with(w, sw, se,
                   create_smtp_connection(provider_config, sw, se.me))

except_exception_reraise(r, value) == r

\* except Exception as e: print(...); return value
except_exception(r, value) ==
    IF r.raised # "none"
    THEN [r EXCEPT !.ret = value, !.failed = r.raised, !.raised = "none"]
    ELSE r

send_connected(c, sw, se) ==
    IF ~c.ok THEN SendResult(c.w, sw, "False", "none", "connect", 0, "-", "-")
    ELSE except_exception(send_try(c.w, sw, se), "False")

send_body(w, sw, se) == send_connected(ensure_connected(w, se.co), sw, se)

send_reply(w, sw, se) == handle_email_errors(send_body(w, sw, se))

SendEnv(co, build, me, send, quit) ==
    [co |-> co, build |-> build, me |-> me, send |-> send, quit |-> quit]

SendEnvsConnected(co, c, sw) ==
    IF ~c.ok THEN {SendEnv(co, "-", NoMe, "-", "-")}
    ELSE {SendEnv(co, "raise", NoMe, "-", "-")}
         \cup {SendEnv(co, "ok", me, "-", "-") :
                 me \in {x \in SmtpEnvsFor(sw) : x.login # "ok"}}
         \cup {SendEnv(co, "ok", me, sd, q) :
                 me \in {x \in SmtpEnvsFor(sw) : x.login = "ok"},
                 sd \in {"ok", "raise"}, q \in {"ok", "raise"}}

SendEnvsFor(w, sw) ==
    UNION {SendEnvsConnected(co, ensure_connected(w, co), sw) :
           co \in EnsureEnvsFor(w)}

(***************************************************************************)
(* EmailConnectionManager.retry_on_failure.                                *)
(* outcomes[k+1] is what attempt k of the wrapped operation does: "ok" or  *)
(* the type of the exception it raises.  An exception is identified by its *)
(* type and the attempt that raised it.                                    *)
(***************************************************************************)
DefaultExceptions == {"ConnectionError", "IMAP4.error", "SMTPException"}
ErrorTypes == {"ConnectionError", "IMAP4.error", "SMTPException", "ValueError"}
ExceptionTuples == {DefaultExceptions, {"IMAP4.error"}}

RECURSIVE Power(_, _)
Power(b, e) == IF e = 0 THEN 1 ELSE b * Power(b, e - 1)

\* The classes an exception of the given type is an instance of (imaplib:
\* abort derives from error; smtplib: SMTPServerDisconnected and
\* SMTPAuthenticationError derive from SMTPException).  ConnectionError and
\* AuthenticationError are the classes of connection_manager.py, which
\* derive from Exception only.
ClassesOf(type) ==
    IF type = "IMAP4.abort" THEN {"IMAP4.abort", "IMAP4.error"}
    ELSE IF type \in {"SMTPServerDisconnected", "SMTPAuthenticationError"}
    THEN {type, "SMTPException"}
    ELSE {type}

except_matches_all(type, exceptions) == TRUE

\* except exceptions as e:
except_matches(type, exceptions) == ClassesOf(type) \cap exceptions # {}

wait_time_constant(attempt) == backoff_factor

\* wait_time = self.backoff_factor ** attempt
wait_time(attempt) == Power(backoff_factor, attempt)

\* for attempt in range(attempts): ...   raise last_exception
RECURSIVE retry_loop(_, _, _, _, _, _, _, _)
retry_loop(max_retries, exceptions, outcomes, attempts, attempt, last_exception, calls, waits) ==
    IF attempt >= attempts THEN
        [state |-> "done", result |-> "raised", error |-> last_exception,
         value |-> 0, calls |-> calls, waits |-> waits]
    ELSE IF outcomes[attempt + 1] = "ok" THEN
        [state |-> "done", result |-> "returned",
         error |-> [type |-> "none", attempt |-> 0],
         value |-> attempt + 1, calls |-> calls + 1, waits |-> waits]
    ELSE IF except_matches(outcomes[attempt + 1], exceptions) THEN
        retry_loop(max_retries, exceptions, outcomes, attempts, attempt + 1,
                   [type |-> outcomes[attempt + 1], attempt |-> attempt],
                   calls + 1,
                   IF attempt < max_retries
                   THEN Append(waits, wait_time(attempt))
                   ELSE waits)
    ELSE
        [state |-> "done", result |-> "raised",
         error |-> [type |-> outcomes[attempt + 1], attempt |-> attempt],
         value |-> 0, calls |-> calls + 1, waits |-> waits]

retry_on_failure_short(max_retries, exceptions, outcomes) ==
    retry_loop(max_retries, exceptions, outcomes, max_retries, 0,
               [type |-> "none", attempt |-> 0], 0, <<>>)

retry_on_failure(max_retries, exceptions, outcomes) ==
    retry_loop(max_retries, exceptions, outcomes, max_retries + 1, 0,
               [type |-> "none", attempt |-> 0], 0, <<>>)

RetryInputs ==
    UNION {[max_retries : {n}, exceptions : ExceptionTuples,
            outcomes : [1..(n + 1) -> ErrorTypes \cup {"ok"}]] :
           n \in 0..MaxRetries}

(***************************************************************************)
(* EmailConnectionManager.execute_imap_operation / execute_smtp_operation. *)
(* outcomes[k+1] is what the k-th call of the operation does: "ok" or the  *)
(* type of the exception it raises.                                        *)
(***************************************************************************)
ImapOutcomes == {"ok", "IMAP4.error", "IMAP4.abort", "OSError"}
SmtpOutcomes == {"ok", "SMTPException", "SMTPServerDisconnected", "OSError"}

\* the inner function execute(): except <abort class>: raise ConnectionError
execute(outcome, abort_class) ==
    IF outcome # "ok" /\ except_matches(outcome, {abort_class})
    THEN "ConnectionError"
    ELSE outcome

Executed(outcomes, abort_class) ==
    [i \in 1..Len(outcomes) |-> execute(outcomes[i], abort_class)]

execute_imap_operation(max_retries, outcomes) ==
    retry_on_failure(max_retries, {"IMAP4.error"},
                     Executed(outcomes, "IMAP4.abort"))

execute_smtp_operation(max_retries, outcomes) ==
    retry_on_failure(max_retries, {"SMTPException"},
                     Executed(outcomes, "SMTPServerDisconnected"))

ExecInputs ==
    UNION {[kind : {"imap"}, max_retries : {n},
            outcomes : [1..(n + 1) -> ImapOutcomes]]
           \cup [kind : {"smtp"}, max_retries : {n},
                 outcomes : [1..(n + 1) -> SmtpOutcomes]] :
           n \in 0..MaxRetries}

(***************************************************************************)
(* The search of fetch_unanswered_emails.  Time is counted in hours from   *)
(* midnight of day 0.  strftime("%d-%b-%Y") keeps the calendar day of its  *)
(* argument; the server compares the day of a message's internal date     *)
(* with the day of SINCE.                                                  *)
(***************************************************************************)
lookback_hours == 8
HoursPerDay == 24

DayOf(hour) == hour \div HoursPerDay

\* since_date = (datetime.now() - timedelta(hours=8)).strftime("%d-%b-%Y")
since_date(now) == DayOf(now - lookback_hours)

\* search_criteria = f'UNSEEN SINCE "{since_date}"'
search_criteria(now) == [unseen |-> TRUE, since |-> since_date(now)]

\* imap_conn.search(None, search_criteria), for one message of the inbox
search_matches(criteria, msg) ==
    /\ criteria.unseen => msg.unseen
    /\ DayOf(msg.received) >= criteria.since

SearchInputs ==
    {x \in [now : lookback_hours..MaxNow, received : 0..MaxNow,
            unseen : BOOLEAN] : x.received <= x.now}

(***************************************************************************)
(* The record kept of the last operation.                                  *)
(***************************************************************************)
NoLast ==
    [op |-> "none", ret |-> "-", emails |-> <<>>, maxr |-> 0, ids |-> <<>>,
     considered |-> <<>>, searched |-> FALSE, searchFolder |-> "",
     msgs |-> NoMsgs, lazy |-> FALSE, prev |-> 0, trace |-> NoTrace,
     gc |-> NoGc,
     selects |-> <<>>, append |-> "-", appendFolder |-> "",
     smtp |-> 0, fresh |-> FALSE, sent |-> "-", quit |-> "-",
     transport |-> "-", sends |-> 0, prevsel |-> "",
     failed |-> "-"]

SetWorld(w) ==
    /\ connected' = w.connected
    /\ imap_pool' = w.imap_pool
    /\ pool_connection' = w.conn
    /\ pool_selected' = w.sel
    /\ open_read' = w.open
    /\ next_read' = w.next

(***************************************************************************)
(* src/src/tools/email/email_parser.py (EmailParser).                      *)
(* A string is a sequence of characters; a header is present with a value  *)
(* or absent.                                                              *)
(***************************************************************************)
Whitespace == {" "}
AngleBrackets == {"<", ">"}

RECURSIVE lstrip(_, _)
lstrip(s, chars) ==
    IF s # <<>> /\ Head(s) \in chars THEN lstrip(Tail(s), chars) ELSE s

RECURSIVE rstrip(_, _)
rstrip(s, chars) ==
    IF s # <<>> /\ s[Len(s)] \in chars
    THEN rstrip(SubSeq(s, 1, Len(s) - 1), chars)
    ELSE s

\* str.strip() with chars = Whitespace, str.strip('<>') with AngleBrackets
strip(s, chars) == rstrip(lstrip(s, chars), chars)

RECURSIVE first_word(_)
first_word(s) ==
    IF s = <<>> \/ Head(s) \in Whitespace
    THEN <<>>
    ELSE <<Head(s)>> \o first_word(Tail(s))

\* str.split()[0]; the empty string when split() returns no word
split_first(s) == first_word(lstrip(s, Whitespace))

NoHeader == [present |-> FALSE, value |-> <<>>]
Header(v) == [present |-> TRUE, value |-> v]

\* message.get(name, default) and headers.get(name, default)
get(header, default) == IF header.present THEN header.value ELSE default

\* str(uuid.uuid4()): the n-th identifier drawn, different from every other
uuid4(n) == <<"uuid", ToString(n)>>

generate_thread_id_references_first(message, uuids) ==
    IF split_first(strip(get(message.references, <<>>), Whitespace)) # <<>>
    THEN [value |-> strip(split_first(strip(get(message.references, <<>>),
                                            Whitespace)), AngleBrackets),
          uuids |-> uuids]
    ELSE IF strip(get(message.in_reply_to, <<>>), Whitespace) # <<>>
    THEN [value |-> strip(strip(get(message.in_reply_to, <<>>), Whitespace),
                          AngleBrackets),
          uuids |-> uuids]
    ELSE IF strip(get(message.message_id, <<>>), Whitespace) # <<>>
    THEN [value |-> strip(strip(get(message.message_id, <<>>), Whitespace),
                          AngleBrackets),
          uuids |-> uuids]
    ELSE [value |-> uuid4(uuids + 1), uuids |-> uuids + 1]

\* the thread id and the number of identifiers drawn so far
generate_thread_id(message, uuids) ==
    IF strip(get(message.in_reply_to, <<>>), Whitespace) # <<>>
    THEN [value |-> strip(strip(get(message.in_reply_to, <<>>), Whitespace),
                          AngleBrackets),
          uuids |-> uuids]
    ELSE IF /\ strip(get(message.references, <<>>), Whitespace) # <<>>
            /\ split_first(strip(get(message.references, <<>>),
                                 Whitespace)) # <<>>
    THEN [value |-> strip(split_first(strip(get(message.references, <<>>),
                                            Whitespace)), AngleBrackets),
          uuids |-> uuids]
    ELSE IF strip(get(message.message_id, <<>>), Whitespace) # <<>>
    THEN [value |-> strip(strip(get(message.message_id, <<>>), Whitespace),
                          AngleBrackets),
          uuids |-> uuids]
    ELSE [value |-> uuid4(uuids + 1), uuids |-> uuids + 1]

(***************************************************************************)
(* A body is the payload of one part of the message and what was done to   *)
(* it.  A payload is "words" (visible text), "tags" (markup without        *)
(* visible text), "blank" (whitespace only) or "" (empty).                 *)
(***************************************************************************)
Payloads == {"words", "tags", "blank", ""}

EmptyBody ==
    [part |-> 0, payload |-> "", decoded |-> FALSE, stripped |-> FALSE,
     cleaned |-> FALSE]

\* str(message.get_payload()): the payload as transmitted
get_payload(parts, i) ==
    IF parts[i].payload = ""
    THEN EmptyBody
    ELSE [part |-> i, payload |-> parts[i].payload, decoded |-> FALSE,
          stripped |-> FALSE, cleaned |-> FALSE]

\* part.get_payload(decode=True).decode(charset, errors='ignore')
decode(parts, i) ==
    IF parts[i].payload = ""
    THEN EmptyBody
    ELSE [get_payload(parts, i) EXCEPT !.decoded = TRUE]

extract_text_from_html(body) ==
    IF body.payload \in {"", "tags", "blank"}
    THEN EmptyBody
    ELSE [body EXCEPT !.stripped = TRUE]

clean_body_text(body) ==
    IF body.payload \in {"", "blank"}
    THEN EmptyBody
    ELSE [body EXCEPT !.cleaned = TRUE]

\* the loop over message.walk() with the html branch taken first
RECURSIVE walk_html_first(_, _, _)
walk_html_first(parts, i, body) ==
    IF i > Len(parts) THEN body
    ELSE IF parts[i].attachment THEN walk_html_first(parts, i + 1, body)
    ELSE IF parts[i].content_type = "text/html" /\ body = EmptyBody
    THEN IF parts[i].charset_known
         THEN walk_html_first(parts, i + 1,
                              extract_text_from_html(decode(parts, i)))
         ELSE walk_html_first(parts, i + 1, body)
    ELSE IF parts[i].content_type = "text/plain" /\ body = EmptyBody
    THEN IF parts[i].charset_known
         THEN decode(parts, i)
         ELSE walk_html_first(parts, i + 1, body)
    ELSE walk_html_first(parts, i + 1, body)

\* the loop over message.walk(), from part i on, with the body found so far
RECURSIVE walk(_, _, _)
walk(parts, i, body) ==
    IF i > Len(parts) THEN body
    ELSE IF parts[i].attachment THEN walk(parts, i + 1, body)
    ELSE IF parts[i].content_type = "text/plain"
    THEN IF parts[i].charset_known
         THEN decode(parts, i)
         ELSE walk(parts, i + 1, body)
    ELSE IF parts[i].content_type = "text/html" /\ body = EmptyBody
    THEN IF parts[i].charset_known
         THEN walk(parts, i + 1, extract_text_from_html(decode(parts, i)))
         ELSE walk(parts, i + 1, body)
    ELSE walk(parts, i + 1, body)

\* the single-part branch of extract_body
single_part(parts) ==
    IF ~parts[1].charset_known THEN get_payload(parts, 1)
    ELSE IF parts[1].content_type = "text/html"
    THEN extract_text_from_html(decode(parts, 1))
    ELSE decode(parts, 1)

extract_body_html_first(message) ==
    IF message.is_multipart
    THEN clean_body_text(walk_html_first(message.parts, 1, EmptyBody))
    ELSE clean_body_text(single_part(message.parts))

extract_body(message) ==
    IF message.is_multipart
    THEN clean_body_text(walk(message.parts, 1, EmptyBody))
    ELSE clean_body_text(single_part(message.parts))

\* the Email dictionary and the number of identifiers drawn so far
extract_email_info(message, msg_id, uuids) ==
    [email |-> [id |-> msg_id,
                threadId |-> generate_thread_id(message, uuids).value,
                messageId |-> get(message.message_id, <<>>),
                references |-> get(message.references, <<>>),
                sender |-> get(message.from, <<"Unknown">>),
                subject |-> get(message.subject, <<"No Subject">>),
                body |-> extract_body(message),
                date |-> get(message.date, <<>>)],
     uuids |-> generate_thread_id(message, uuids).uuids]

(***************************************************************************)
(* EmailParser.create_reply_message.                                       *)
(***************************************************************************)
lower_char(c) ==
    CASE c = "R" -> "r"
      [] c = "E" -> "e"
      [] c = "M" -> "m"
      [] OTHER -> c

\* str.lower()
lower(s) == [i \in 1..Len(s) |-> lower_char(s[i])]

\* str.startswith(prefix)
startswith(s, prefix) ==
    Len(s) >= Len(prefix) /\ SubSeq(s, 1, Len(prefix)) = prefix

reply_subject_case_sensitive(subject) ==
    IF ~startswith(subject, <<"R", "e", ":">>)
    THEN <<"R", "e", ":", " ">> \o subject
    ELSE subject

reply_subject(subject) ==
    IF ~startswith(lower(subject), <<"r", "e", ":">>)
    THEN <<"R", "e", ":", " ">> \o subject
    ELSE subject

\* str.split(sep): the pieces of s between the occurrences of sep
RECURSIVE split(_, _)
split(s, sep) ==
    IF sep \notin {s[i] : i \in 1..Len(s)} THEN <<s>>
    ELSE IF Head(s) = sep THEN <<<<>>>> \o split(Tail(s), sep)
    ELSE <<<<Head(s)>> \o split(Tail(s), sep)[1]>>
         \o Tail(split(Tail(s), sep))

\* f"{a} {b}".strip()
joined(a, b) == strip(a \o <<" ">> \o b, Whitespace)

NoMessage ==
    [From |-> NoHeader, Subject |-> NoHeader, InReplyTo |-> NoHeader,
     References |-> NoHeader, MessageID |-> NoHeader]

reply_message_id_fixed(sender_email, send_mode, uuids) ==
    IF send_mode
    THEN Header(<<"<">> \o uuid4(1) \o <<"@">>
                \o split(sender_email, "@")[2] \o <<">">>)
    ELSE NoHeader

\* the Message-ID header of a reply (lines 229-231)
reply_message_id(sender_email, send_mode, uuids) ==
    IF send_mode
    THEN Header(<<"<">> \o uuid4(uuids + 1) \o <<"@">>
                \o split(sender_email, "@")[2] \o <<">">>)
    ELSE NoHeader

\* the headers of the message built, what the call raises, and the number
\* of identifiers drawn so far
create_reply_message(original_email, sender_email, send_mode, uuids) ==
    IF send_mode /\ Len(split(sender_email, "@")) < 2
    THEN [raised |-> "IndexError", message |-> NoMessage,
          uuids |-> uuids + 1]
    ELSE [raised |-> "",
          message |->
            [From |-> Header(sender_email),
             Subject |-> Header(reply_subject(original_email.subject)),
             InReplyTo |-> IF original_email.messageId # <<>>
                           THEN Header(original_email.messageId)
                           ELSE NoHeader,
             References |-> IF original_email.messageId # <<>>
                            THEN Header(joined(original_email.references,
                                               original_email.messageId))
                            ELSE NoHeader,
             MessageID |-> reply_message_id(sender_email, send_mode, uuids)],
          uuids |-> IF send_mode THEN uuids + 1 ELSE uuids]

(***************************************************************************)
(* IMAPConnectionPool.get_connection called by two callers at once, one    *)
(* statement at a time.  r is the pool and the position of each caller:    *)
(* r.pc[t] is the statement caller t executes next, r.handle[t] the        *)
(* session get_connection returned to it.                                  *)
(***************************************************************************)
Callers == {1, 2}
Other(t) == 3 - t

RacePool ==
    [connection |-> 0, open |-> {}, next |-> 0,
     closed_by |-> [c \in {} |-> 0],
     pc |-> [t \in Callers |-> "idle"],
     handle |-> [t \in Callers |-> 0],
     stale |-> [t \in Callers |-> FALSE]]

race_alive_unprobed(r, answer) == r.connection # 0

\* _is_connection_alive (lines 295-310): a logged-out session raises
race_alive(r, answer) == r.connection \in r.open /\ answer = "OK"

\* the condition of get_connection (line 276)
race_check(r, t, answer) ==
    IF r.connection = 0 \/ ~race_alive(r, answer)
    THEN [r EXCEPT !.pc[t] = "teardown"]
    ELSE [r EXCEPT !.pc[t] = "return"]

\* the teardown of _create_new_connection (lines 283-288)
race_teardown(r, t) ==
    IF r.connection \in r.open
    THEN [r EXCEPT !.open = @ \ {r.connection},
                   !.closed_by = (r.connection :> t) @@ @,
                   !.pc[t] = "create"]
    ELSE [r EXCEPT !.pc[t] = "create"]

\* the creation and the store of _create_new_connection (lines 290-293)
race_create(r, t, outcome) ==
    IF outcome = "ok"
    THEN [r EXCEPT !.next = @ + 1,
                   !.open = @ \cup {r.next + 1},
                   !.connection = r.next + 1,
                   !.pc[t] = "return"]
    ELSE [r EXCEPT !.pc[t] = "idle"]

\* return self.connection (line 279)
race_return(r, t) ==
    [r EXCEPT !.handle[t] = r.connection, !.pc[t] = "use"]

\* the caller issues a command on the session it was given
race_use(r, t) ==
    [r EXCEPT !.stale[t] = r.handle[t] \notin r.open, !.pc[t] = "used"]

race_done(r, t) ==
    [r EXCEPT !.handle[t] = 0, !.stale[t] = FALSE, !.pc[t] = "idle"]

(***************************************************************************)
(* src/src/nodes.py: the nodes write_draft_email and verify_generated_email *)
(* and the routing function must_rewrite, applied to the graph state.      *)
(* state.next is the node that runs next, state.decision the label         *)
(* must_rewrite returned last, state.writes the calls of write_draft_email. *)
(***************************************************************************)
max_trials == 3

\* the state in which the loop is entered for an email
GraphState ==
    [next |-> "write_draft_email", trials |-> 0, sendable |-> FALSE,
     generated_email |-> "", writer_messages |-> <<>>, writes |-> 0,
     failures |-> 0, decision |-> "-"]

\* what the writer agent does: it returns a draft, returns None, returns an
\* object without an email attribute, or raises
WriterOutcomes == {"draft", "None", "no email", "raise"}

\* what the proofreader agent does
ProofreaderOutcomes == {"send", "reject", "None", "incomplete", "raise"}

write_draft_email(state, writer) ==
    IF writer = "draft"
    THEN [state EXCEPT !.generated_email = "draft",
                       !.trials = @ + 1,
                       !.writer_messages =
                          Append(@, [kind |-> "Draft",
                                     trial |-> state.trials + 1]),
                       !.writes = @ + 1]
    ELSE [state EXCEPT !.generated_email =
                          IF writer = "None"
                          THEN "Error: Failed to generate email"
                          ELSE IF writer = "no email"
                          THEN "Error: Invalid draft result format"
                          ELSE "Error: Exception occurred during email generation",
                       !.trials = @ + 1,
                       !.writes = @ + 1,
                       !.failures = @ + 1]

verify_generated_email(state, review) ==
    IF review \in {"send", "reject"}
    THEN [state EXCEPT !.sendable = (review = "send"),
                       !.writer_messages =
                          Append(@, [kind |-> "Proofreader Feedback",
                                     trial |-> state.trials])]
    ELSE [state EXCEPT !.sendable = FALSE]

must_rewrite_unbounded(state) ==
    IF state.sendable THEN "send" ELSE "rewrite"

\* the label must_rewrite returns
must_rewrite(state) ==
    IF state.sendable THEN "send"
    ELSE IF state.trials >= max_trials THEN "stop"
    ELSE "rewrite"

\* what must_rewrite does to the state it is given before it returns label
must_rewrite_state(state, label) ==
    IF label = "rewrite"
    THEN [state EXCEPT !.decision = label]
    ELSE [state EXCEPT !.decision = label, !.writer_messages = <<>>]

\* the edges of the workflow graph between the nodes of the loop: the writer
\* is followed by the proofreader, the proofreader by must_rewrite, and the
\* label rewrite leads back to the writer while send and stop leave the loop
edge(node, label) ==
    IF node = "write_draft_email" THEN "verify_generated_email"
    ELSE IF node = "verify_generated_email" THEN "must_rewrite"
    ELSE IF label = "rewrite" THEN "write_draft_email"
    ELSE "done"

\* the pure-function runs that a specification does not make
SearchIdle ==
    /\ search_in = [now |-> lookback_hours, received |-> 0, unseen |-> FALSE]
    /\ search_out = [state |-> "idle"]

ExecIdle ==
    /\ exec_in = [kind |-> "imap", max_retries |-> 0, outcomes |-> <<"ok">>]
    /\ exec_out = [state |-> "idle"]

CreateIdle ==
    /\ create_in = [config |-> provider_config, ce |-> NoCe, me |-> NoMe]
    /\ create_out = [state |-> "idle"]

RetryIdle ==
    /\ retry_in = [max_retries |-> 0, exceptions |-> {}, outcomes |-> <<>>]
    /\ retry_out = [state |-> "idle"]

DecodeIdle ==
    /\ decode_in = [in_reply_to |-> NoHeader, references |-> NoHeader,
                    message_id |-> NoHeader, from |-> NoHeader,
                    subject |-> NoHeader, date |-> NoHeader,
                    is_multipart |-> TRUE, parts |-> <<>>]
    /\ decode_out = [uuids |-> 0, emails |-> <<>>]

ReplyIdle ==
    /\ reply_in = [original_email |-> [subject |-> <<>>, messageId |-> <<>>,
                                       references |-> <<>>],
                   sender_email |-> <<"a", "@", "x">>, send_mode |-> FALSE]
    /\ reply_out = [uuids |-> 0, replies |-> <<>>]

RaceIdle == race = RacePool

FlowIdle == flow = GraphState

ParserIdle == DecodeIdle /\ ReplyIdle /\ RaceIdle /\ FlowIdle

\* the client after __init__
ClientInit ==
    /\ connected = FALSE
    /\ imap_pool = FALSE
    /\ pool_connection = 0
    /\ pool_selected = ""
    /\ smtp_connection = 0
    /\ open_read = {}
    /\ next_read = 0
    /\ open_smtp = {}
    /\ used_smtp = {}
    /\ next_smtp = 0
    /\ last = NoLast

Init ==
    /\ connected = FALSE
    /\ imap_pool = FALSE
    /\ pool_connection = 0
    /\ pool_selected = ""
    /\ smtp_connection = 0
    /\ open_read = {}
    /\ next_read = 0
    /\ open_smtp = {}
    /\ used_smtp = {}
    /\ next_smtp = 0
    /\ last = NoLast
    /\ retry_in = [max_retries |-> 0, exceptions |-> {}, outcomes |-> <<>>]
    /\ retry_out = [state |-> "idle"]
    /\ SearchIdle
    /\ ExecIdle
    /\ CreateIdle
    /\ ParserIdle

ConnectReturns(r) ==
    /\ SetWorld(r.w)
    /\ last' = [NoLast EXCEPT !.op = "connect", !.ret = r.ret]
    /\ UNCHANGED <<smtp_connection, open_smtp, used_smtp, next_smtp,
                   retry_in, retry_out, auxVars>>

Connect ==
    /\ last.op = "none"
    /\ \E co \in ConnectEnvsFor(World) : ConnectReturns(connect(World, co))

Disconnect ==
    /\ last.op = "none"
    /\ \E td \in TeardownEnvsFor(World) :
        /\ SetWorld(disconnect(World, td))
        /\ last' = [NoLast EXCEPT !.op = "disconnect", !.ret = "None"]
        /\ UNCHANGED <<smtp_connection, open_smtp, used_smtp, next_smtp,
                       retry_in, retry_out, auxVars>>

ReconnectReturns(r) ==
    /\ SetWorld(r.w)
    /\ last' = [NoLast EXCEPT !.op = "reconnect", !.ret = r.ret,
                              !.prev = IF imap_pool THEN pool_connection
                                       ELSE 0]
    /\ UNCHANGED <<smtp_connection, open_smtp, used_smtp, next_smtp,
                   retry_in, retry_out, auxVars>>

\* EmailToolsClass.reconnect: client.disconnect(), then client.connect()
Reconnect ==
    /\ last.op = "none"
    /\ \E td \in TeardownEnvsFor(World) :
       \E co \in ConnectEnvsFor(disconnect(World, td)) :
          ReconnectReturns(connect(disconnect(World, td), co))

FetchReturns(max_results, msgs, r) ==
    /\ SetWorld(r.w)
    /\ last' = [NoLast EXCEPT !.op = "fetch", !.ret = r.ret,
                              !.emails = r.emails,
                              !.maxr = max_results,
                              !.ids = r.ids,
                              !.considered = r.considered,
                              !.searched = r.searched,
                              !.searchFolder = r.searchFolder,
                              !.prevsel = pool_selected,
                              !.msgs = msgs,
                              !.lazy = ~connected,
                              !.trace = r.w.trace,
                              !.failed = r.failed]
    /\ UNCHANGED <<smtp_connection, open_smtp, used_smtp, next_smtp,
                   retry_in, retry_out, auxVars>>

FetchUnansweredEmails ==
    /\ last.op = "none"
    /\ \E max_results \in 0..MaxResults :
       \E fe \in FetchEnvsFor(World, max_results) :
          FetchReturns(max_results, fe.msgs,
                       fetch_unanswered_emails(World, max_results, fe))

GetConnectionReturns(g) ==
    /\ SetWorld(g.w)
    /\ last' = [NoLast EXCEPT !.op = "get_connection", !.gc = g.gc]
    /\ UNCHANGED <<smtp_connection, open_smtp, used_smtp, next_smtp,
                   retry_in, retry_out, auxVars>>

\* A direct call of imap_pool.get_connection(), as _get_folder_list and
\* get_connection_status make it.
PoolGetConnection ==
    /\ last.op = "none"
    /\ imap_pool
    /\ \E ge \in GetConnEnvsFor(World) :
          GetConnectionReturns(get_connection(World, ge))

DraftReturns(r) ==
    /\ SetWorld(r.w)
    /\ last' = [NoLast EXCEPT !.op = "draft", !.ret = r.ret,
                              !.selects = r.selects,
                              !.append = r.append,
                              !.appendFolder = r.appendFolder,
                              !.lazy = ~connected,
                              !.trace = r.w.trace,
                              !.failed = r.failed]
    /\ UNCHANGED <<smtp_connection, open_smtp, used_smtp, next_smtp,
                   retry_in, retry_out, auxVars>>

CreateDraftReply ==
    /\ last.op = "none"
    /\ \E de \in DraftEnvsFor(World) :
          DraftReturns(create_draft_reply(World, de))

SendReturns(r) ==
    /\ SetWorld(r.w)
    /\ open_smtp' = r.sw.open
    /\ next_smtp' = r.sw.next
    /\ used_smtp' = IF r.smtp = 0 THEN used_smtp ELSE used_smtp \cup {r.smtp}
    /\ last' = [NoLast EXCEPT !.op = "send", !.ret = r.ret,
                              !.smtp = r.smtp,
                              !.fresh = (r.smtp # 0 /\ r.smtp \notin used_smtp),
                              !.sent = r.sent,
                              !.quit = r.quit,
                              !.transport = r.transport,
                              !.sends = r.sends,
                              !.lazy = ~connected,
                              !.trace = r.w.trace,
                              !.failed = r.failed]
    /\ UNCHANGED <<smtp_connection, retry_in, retry_out, auxVars>>

SendReply ==
    /\ last.op = "none"
    /\ \E se \in SendEnvsFor(World, SmtpWorld) :
          SendReturns(send_reply(World, SmtpWorld, se))

\* The caller takes the result; the client is ready for the next call.
Return ==
    /\ last.op # "none"
    /\ last' = NoLast
    /\ UNCHANGED <<connected, imap_pool, pool_connection, pool_selected,
                   smtp_connection, open_read, next_read, open_smtp,
                   used_smtp, next_smtp, retry_in, retry_out, auxVars>>

Next ==
    \/ Return
    \/ Connect
    \/ Disconnect
    \/ Reconnect
    \/ FetchUnansweredEmails
    \/ CreateDraftReply
    \/ SendReply
    \/ PoolGetConnection

Spec == Init /\ [][Next]_vars

(***************************************************************************)
(* retry_on_failure on its own: an operation with a given script of        *)
(* outcomes is run once under the wrapper.                                 *)
(***************************************************************************)
InitRetry ==
    /\ connected = FALSE
    /\ imap_pool = FALSE
    /\ pool_connection = 0
    /\ pool_selected = ""
    /\ smtp_connection = 0
    /\ open_read = {}
    /\ next_read = 0
    /\ open_smtp = {}
    /\ used_smtp = {}
    /\ next_smtp = 0
    /\ last = NoLast
    /\ retry_in \in RetryInputs
    /\ retry_out = [state |-> "idle"]
    /\ SearchIdle
    /\ ExecIdle
    /\ CreateIdle
    /\ ParserIdle

RunRetry ==
    /\ retry_out.state = "idle"
    /\ retry_out' = retry_on_failure(retry_in.max_retries,
                                     retry_in.exceptions, retry_in.outcomes)
    /\ UNCHANGED <<clientVars, retry_in, auxVars>>

NextRetry == RunRetry

SpecRetry == InitRetry /\ [][NextRetry]_vars

(***************************************************************************)
(* execute_imap_operation / execute_smtp_operation on their own.           *)
(***************************************************************************)
InitExec ==
    /\ ClientInit
    /\ RetryIdle
    /\ SearchIdle
    /\ CreateIdle
    /\ ParserIdle
    /\ exec_in \in ExecInputs
    /\ exec_out = [state |-> "idle"]

RunExecuteImap ==
    /\ exec_out.state = "idle"
    /\ exec_in.kind = "imap"
    /\ exec_out' = execute_imap_operation(exec_in.max_retries, exec_in.outcomes)
    /\ UNCHANGED <<clientVars, retry_in, retry_out, search_in, search_out,
                   exec_in, create_in, create_out, parserVars>>

RunExecuteSmtp ==
    /\ exec_out.state = "idle"
    /\ exec_in.kind = "smtp"
    /\ exec_out' = execute_smtp_operation(exec_in.max_retries, exec_in.outcomes)
    /\ UNCHANGED <<clientVars, retry_in, retry_out, search_in, search_out,
                   exec_in, create_in, create_out, parserVars>>

NextExec == RunExecuteImap \/ RunExecuteSmtp

SpecExec == InitExec /\ [][NextExec]_vars

(***************************************************************************)
(* The search criteria of one fetch call against one message of the inbox. *)
(***************************************************************************)
InitSearch ==
    /\ ClientInit
    /\ RetryIdle
    /\ ExecIdle
    /\ CreateIdle
    /\ ParserIdle
    /\ search_in \in SearchInputs
    /\ search_out = [state |-> "idle"]

RunSearch ==
    /\ search_out.state = "idle"
    /\ search_out' =
         [state |-> "done",
          criteria |-> search_criteria(search_in.now),
          matched |-> search_matches(search_criteria(search_in.now),
                                     [received |-> search_in.received,
                                      unseen |-> search_in.unseen])]
    /\ UNCHANGED <<clientVars, retry_in, retry_out, search_in, exec_in,
                   exec_out, create_in, create_out, parserVars>>

NextSearch == RunSearch

SpecSearch == InitSearch /\ [][NextSearch]_vars

(***************************************************************************)
(* create_imap_connection and create_smtp_connection on their own.         *)
(***************************************************************************)
CreateInputs ==
    UNION {[config : {c}, ce : CreateEnvs, me : SmtpEnvsOf(c)] :
           c \in SmtpConfigs}


InitCreate ==
    /\ ClientInit
    /\ RetryIdle
    /\ SearchIdle
    /\ ExecIdle
    /\ ParserIdle
    /\ create_in \in CreateInputs
    /\ create_out = [state |-> "idle"]

RunCreate ==
    /\ create_out.state = "idle"
    /\ create_out' =
         [state |-> "done",
          imap |-> create_imap_connection(World, create_in.ce).raised,
          smtp |-> create_smtp_connection(create_in.config, SmtpWorld,
                                          create_in.me).raised,
          steps |-> create_smtp_connection(create_in.config, SmtpWorld,
                                           create_in.me).steps,
          transport |-> create_smtp_connection(create_in.config, SmtpWorld,
                                               create_in.me).transport]
    /\ UNCHANGED <<clientVars, retry_in, retry_out, search_in, search_out,
                   exec_in, exec_out, create_in, parserVars>>

NextCreate == RunCreate

SpecCreate == InitCreate /\ [][NextCreate]_vars

(***************************************************************************)
(* EmailParser.extract_email_info on its own: one raw message, decoded     *)
(* once and then once more.                                                *)
(***************************************************************************)
InReplyToValues ==
    {NoHeader, Header(<<>>), Header(<<" ">>), Header(<<"<", ">">>),
     Header(<<"<", "a", ">">>), Header(<<" ", "<", "a", ">", " ">>),
     Header(<<"a">>)}

ReferencesValues ==
    {NoHeader, Header(<<" ">>), Header(<<"<", ">">>),
     Header(<<"<", "b", ">">>),
     Header(<<"<", "b", ">", " ", "<", "c", ">">>),
     Header(<<"<", ">", " ", "<", "c", ">">>)}

MessageIdValues ==
    {NoHeader, Header(<<" ">>), Header(<<"<", ">">>),
     Header(<<"<", "d", ">">>), Header(<<"d">>)}

Part(content_type, attachment, charset_known, payload) ==
    [content_type |-> content_type, attachment |-> attachment,
     charset_known |-> charset_known, payload |-> payload]

PartKinds ==
    {Part("text/plain", FALSE, TRUE, "words"),
     Part("text/plain", TRUE, TRUE, "words"),
     Part("text/plain", FALSE, FALSE, "words"),
     Part("text/plain", FALSE, TRUE, ""),
     Part("text/html", FALSE, TRUE, "words"),
     Part("text/html", TRUE, TRUE, "words"),
     Part("text/html", FALSE, FALSE, "words"),
     Part("text/html", FALSE, TRUE, "tags"),
     Part("image/png", FALSE, TRUE, "words")}

PartLists == UNION {[1..n -> PartKinds] : n \in 0..MaxParts}

Message(in_reply_to, references, message_id, is_multipart, parts) ==
    [in_reply_to |-> in_reply_to, references |-> references,
     message_id |-> message_id, from |-> Header(<<"a", "@", "x">>),
     subject |-> NoHeader, date |-> NoHeader,
     is_multipart |-> is_multipart, parts |-> parts]

DecodeInputs ==
    {Message(i, r, m, FALSE, <<Part("text/plain", FALSE, TRUE, "words")>>) :
       <<i, r, m>> \in
         InReplyToValues \X ReferencesValues \X MessageIdValues}
    \cup {Message(NoHeader, NoHeader, m, TRUE, ps) :
            <<m, ps>> \in {NoHeader, Header(<<"<", "d", ">">>)} \X PartLists}
    \cup {Message(NoHeader, NoHeader, NoHeader, FALSE, <<k>>) :
            k \in PartKinds \cup {Part("text/plain", FALSE, TRUE, "blank")}}

InitDecode ==
    /\ ClientInit
    /\ RetryIdle
    /\ SearchIdle
    /\ ExecIdle
    /\ CreateIdle
    /\ ReplyIdle
    /\ RaceIdle
    /\ FlowIdle
    /\ decode_in \in DecodeInputs
    /\ decode_out = [uuids |-> 0, emails |-> <<>>]

Decode ==
    /\ Len(decode_out.emails) < 2
    /\ decode_out' =
         [uuids |-> extract_email_info(decode_in, "1",
                                       decode_out.uuids).uuids,
          emails |-> Append(decode_out.emails,
                            extract_email_info(decode_in, "1",
                                               decode_out.uuids).email)]
    /\ UNCHANGED <<clientVars, retry_in, retry_out, search_in, search_out,
                   exec_in, exec_out, create_in, create_out, decode_in,
                   reply_in, reply_out, race, flow>>

NextDecode == Decode

SpecDecode == InitDecode /\ [][NextDecode]_vars

(***************************************************************************)
(* EmailParser.create_reply_message on its own: a reply to a message, and  *)
(* then a reply to a message that carries the subject of that reply.       *)
(***************************************************************************)
SubjectChars == {"R", "r", "E", "e", ":", "m"}

Subjects == UNION {[1..n -> SubjectChars] : n \in 0..MaxSubject}

Originals ==
    {[subject |-> sub, messageId |-> o[1], references |-> o[2]] :
       <<sub, o>> \in Subjects \X {<<<<>>, <<>>>>,
                                  <<<<"<", "d", ">">>, <<>>>>,
                                  <<<<"<", "d", ">">>, <<"<", "b", ">">>>>}}

SenderEmails == {<<"a", "@", "x">>, <<"b", "@", "y", ".", "z">>, <<"a", "x">>}

ReplyInputs ==
    [original_email : Originals, sender_email : SenderEmails,
     send_mode : BOOLEAN]

InitReply ==
    /\ ClientInit
    /\ RetryIdle
    /\ SearchIdle
    /\ ExecIdle
    /\ CreateIdle
    /\ DecodeIdle
    /\ RaceIdle
    /\ FlowIdle
    /\ reply_in \in ReplyInputs
    /\ reply_out = [uuids |-> 0, replies |-> <<>>]

Built(r) ==
    /\ reply_out' = [uuids |-> r.uuids,
                     replies |-> Append(reply_out.replies,
                                        [raised |-> r.raised,
                                         message |-> r.message])]
    /\ UNCHANGED <<clientVars, retry_in, retry_out, search_in, search_out,
                   exec_in, exec_out, create_in, create_out, decode_in,
                   decode_out, reply_in, race, flow>>

Reply ==
    /\ reply_out.replies = <<>>
    /\ Built(create_reply_message(reply_in.original_email,
                                  reply_in.sender_email, reply_in.send_mode,
                                  reply_out.uuids))

ReplyToReply ==
    /\ Len(reply_out.replies) = 1
    /\ reply_out.replies[1].raised = ""
    /\ Built(create_reply_message(
               [reply_in.original_email EXCEPT
                  !.subject = reply_out.replies[1].message.Subject.value],
               reply_in.sender_email, reply_in.send_mode, reply_out.uuids))

NextReply == Reply \/ ReplyToReply

SpecReply == InitReply /\ [][NextReply]_vars

(***************************************************************************)
(* Two callers of one IMAPConnectionPool, interleaved statement by         *)
(* statement.                                                              *)
(***************************************************************************)
InitRace ==
    /\ ClientInit
    /\ RetryIdle
    /\ SearchIdle
    /\ ExecIdle
    /\ CreateIdle
    /\ DecodeIdle
    /\ ReplyIdle
    /\ FlowIdle
    /\ race = RacePool

RaceStep(r) ==
    /\ race' = r
    /\ UNCHANGED <<clientVars, retry_in, retry_out, search_in, search_out,
                   exec_in, exec_out, create_in, create_out, decode_in,
                   decode_out, reply_in, reply_out, flow>>

RaceCheck(t) ==
    /\ race.pc[t] = "idle"
    /\ \E answer \in {"OK", "NO"} : RaceStep(race_check(race, t, answer))

RaceTeardown(t) ==
    /\ race.pc[t] = "teardown"
    /\ RaceStep(race_teardown(race, t))

RaceCreate(t) ==
    /\ race.pc[t] = "create"
    /\ \E outcome \in {"ok", "raise"} :
         /\ outcome = "ok" => race.next < MaxRace
         /\ RaceStep(race_create(race, t, outcome))

RaceReturn(t) ==
    /\ race.pc[t] = "return"
    /\ RaceStep(race_return(race, t))

RaceUse(t) ==
    /\ race.pc[t] = "use"
    /\ RaceStep(race_use(race, t))

RaceDone(t) ==
    /\ race.pc[t] = "used"
    /\ RaceStep(race_done(race, t))

NextRace ==
    \E t \in Callers :
        \/ RaceCheck(t)
        \/ RaceTeardown(t)
        \/ RaceCreate(t)
        \/ RaceReturn(t)
        \/ RaceUse(t)
        \/ RaceDone(t)

SpecRace == InitRace /\ [][NextRace]_vars

(***************************************************************************)
(* The loop write_draft_email -> verify_generated_email -> must_rewrite    *)
(* for one email.                                                          *)
(***************************************************************************)
InitRewrite ==
    /\ ClientInit
    /\ RetryIdle
    /\ SearchIdle
    /\ ExecIdle
    /\ CreateIdle
    /\ DecodeIdle
    /\ ReplyIdle
    /\ RaceIdle
    /\ flow = GraphState

FlowStep(state, label) ==
    /\ flow' = [state EXCEPT !.next = edge(flow.next, label)]
    /\ UNCHANGED <<clientVars, retry_in, retry_out, search_in, search_out,
                   exec_in, exec_out, create_in, create_out, decode_in,
                   decode_out, reply_in, reply_out, race>>

WriteDraftEmail ==
    /\ flow.next = "write_draft_email"
    /\ flow.trials < MaxTrials
    /\ \E writer \in WriterOutcomes : FlowStep(write_draft_email(flow, writer), "-")

VerifyGeneratedEmail ==
    /\ flow.next = "verify_generated_email"
    /\ \E review \in ProofreaderOutcomes :
         FlowStep(verify_generated_email(flow, review), "-")

MustRewrite ==
    /\ flow.next = "must_rewrite"
    /\ FlowStep(must_rewrite_state(flow, must_rewrite(flow)),
                must_rewrite(flow))

NextRewrite == WriteDraftEmail \/ VerifyGeneratedEmail \/ MustRewrite

SpecRewrite == InitRewrite /\ [][NextRewrite]_vars

(***************************************************************************)
(*                              Properties                                 *)
(***************************************************************************)
StrictlyDecreasing(s) == \A i \in 1..(Len(s) - 1) : s[i] > s[i + 1]

AllRetryable ==
    \A i \in 1..Len(retry_in.outcomes) :
        retry_in.outcomes[i] \in retry_in.exceptions

\* C2: an operation that raises a retryable error on every attempt is
\* attempted exactly max_retries + 1 times, and the wrapper then raises the
\* error of the last attempt (same type as the operation raised).
C2_RetryExhaustion ==
    (retry_out.state = "done" /\ AllRetryable) =>
        /\ retry_out.calls = retry_in.max_retries + 1
        /\ retry_out.result = "raised"
        /\ retry_out.error =
             [type |-> retry_in.outcomes[retry_in.max_retries + 1],
              attempt |-> retry_in.max_retries]

\* the default policy (3 retries) has run an always-failing operation whose
\* last error differs in type from its first one
C2_Witness ==
    /\ retry_out.state = "done"
    /\ AllRetryable
    /\ retry_in.max_retries = default_max_retries
    /\ retry_in.outcomes[1] # retry_in.outcomes[default_max_retries + 1]
    /\ retry_out.calls = 4

\* C3: at most one read session opened by the client is open (created and not
\* yet torn down) at any time.
C3_AtMostOneOpenReadSession == Cardinality(open_read) <= 1

\* C4: get_connection returns the stored session, creating nothing, when the
\* probe answers OK; when no session is stored or the probe raises or returns
\* a non-OK status it creates a new authenticated session and returns that
\* one, or raises and returns no session when the creation fails; it never
\* returns a session whose probe failed in that call.
C4_GetConnection ==
    last.gc.called =>
        /\ (last.gc.stored # 0 /\ last.gc.probe = "OK") =>
             /\ last.gc.raised = "none"
             /\ last.gc.created = 0
             /\ last.gc.returned = last.gc.stored
             /\ next_read >= last.gc.stored
        /\ (last.gc.stored = 0 \/ last.gc.probe # "OK") =>
             IF last.gc.raised = "none"
             THEN /\ last.gc.created # 0
                  /\ last.gc.created # last.gc.stored
                  /\ last.gc.created = next_read
                  /\ last.gc.created \in open_read
                  /\ last.gc.returned = last.gc.created
                  /\ pool_connection = last.gc.created
             ELSE /\ last.gc.returned = 0
                  /\ last.gc.created = 0
        /\ (last.gc.stored # 0 /\ last.gc.probe # "OK") =>
             last.gc.returned # last.gc.stored

\* the probe of a stored session answered NO and a new session was returned
C4_Witness ==
    /\ last.gc.called
    /\ last.gc.stored # 0
    /\ last.gc.probe = "NO"
    /\ last.gc.returned # 0
    /\ last.gc.returned # last.gc.stored

\* C5: every send_reply that reaches the send step uses a write session no
\* earlier call used, and every write session send_reply opens has been quit
\* when send_reply returns, whether the transmission succeeded or failed.
C5_FreshWriteSession ==
    /\ open_smtp = {}
    /\ (last.op = "send" /\ last.sent # "-") =>
         /\ last.smtp # 0
         /\ last.fresh
         /\ last.quit # "-"

\* a second send_reply whose transmission failed has returned
C5_Witness ==
    /\ last.op = "send"
    /\ last.smtp = 2
    /\ last.sent = "raise"
    /\ open_smtp = {}

\* C6: send_reply returns true if and only if the transmission step completed
\* without error.
C6_SendTrueIffTransmitted ==
    last.op = "send" => (last.ret = "True" <=> last.sent = "ok")

\* C7: create_draft_reply returns true if and only if the append returned OK;
\* a non-OK append status and an exception in connect, reply building,
\* folder selection or append all yield false.
C7_DraftTrueIffAppendOk ==
    last.op = "draft" =>
        /\ last.ret \in {"True", "False"}
        /\ (last.ret = "True" <=> last.append = "OK")
        /\ (last.failed # "-" => last.ret = "False")

\* the append answered with a non-OK status and the call returned false
C7_Witness ==
    /\ last.op = "draft"
    /\ last.append = "NO"
    /\ last.ret = "False"

FirstSelected(outs) ==
    IF \E i \in 1..Len(outs) : outs[i] = "OK"
    THEN CHOOSE i \in 1..Len(outs) :
            outs[i] = "OK" /\ \A j \in 1..(i - 1) : outs[j] # "OK"
    ELSE 0

\* C8: create_draft_reply appends the draft to the first folder whose
\* selection succeeds, in the order configured drafts folder, INBOX.Drafts,
\* [Gmail]/Drafts, Draft, INBOX (the last resort, used when none of the
\* others could be selected).
C8_AppendToFirstSelectedFolder ==
    (last.op = "draft" /\ last.append # "-") =>
        \/ /\ FirstSelected(last.selects) # 0
           /\ last.appendFolder = FolderAt(FirstSelected(last.selects))
        \/ /\ FirstSelected(last.selects) = 0
           /\ Len(last.selects) = NumFolders
           /\ last.appendFolder = "INBOX"

\* C9: fetch_unanswered_emails decodes and returns at most max_results
\* messages, for every max_results >= 0.
C9_AtMostMaxResults ==
    last.op = "fetch" =>
        /\ Len(last.considered) <= last.maxr
        /\ Len(last.emails) <= last.maxr

\* C10: for max_results >= 1 the messages considered are exactly the
\* max_results highest ids of the search result (all when there are fewer),
\* and the emails returned are in strictly decreasing id order, a
\* subsequence of the considered ones.
C10_MostRecentFirst ==
    (last.op = "fetch" /\ last.maxr >= 1) =>
        /\ SeqRange(last.considered) =
             {i \in SeqRange(last.ids) :
                Cardinality({j \in SeqRange(last.ids) : j > i}) < last.maxr}
        /\ Len(last.considered) = Cardinality(SeqRange(last.considered))
        /\ StrictlyDecreasing(last.considered)
        /\ SeqRange(last.emails) \subseteq SeqRange(last.considered)
        /\ StrictlyDecreasing(last.emails)

\* three matches, max_results = 2: the two highest ids returned, highest first
C10_Witness ==
    /\ last.op = "fetch"
    /\ last.maxr = 2
    /\ last.ids = <<1, 2, 3>>
    /\ last.emails = <<3, 2>>

\* C11: no email returned by fetch_unanswered_emails has a sender that
\* contains the client's own address: every message of the batch whose
\* sender contains that address is left out of the returned list.
C11_SelfFilter ==
    last.op = "fetch" =>
        /\ \A i \in 1..Len(last.emails) :
              ~Contains(SenderOf(last.msgs[last.emails[i]]), email_address)
        /\ \A id \in SeqRange(last.considered) :
              (/\ last.msgs[id] \notin {"none", "raise"}
               /\ Contains(SenderOf(last.msgs[id]), email_address))
                  => id \notin SeqRange(last.emails)

\* a batch of an own message between two foreign ones: the two are returned
C11_Witness ==
    /\ last.op = "fetch"
    /\ last.considered = <<3, 2, 1>>
    /\ last.msgs[2] = "self"
    /\ last.emails = <<3, 1>>

\* C12: a message of the batch whose fetch or decoding fails (an exception or
\* a non-OK status) is the only one omitted: every other id of the batch is
\* still processed, and all those that decode and pass the filter are
\* returned.
C12_PerMessageFailure ==
    (last.op = "fetch" /\ last.failed = "-") =>
        SeqRange(last.emails) =
            {id \in SeqRange(last.considered) :
                /\ last.msgs[id] \notin {"none", "raise"}
                /\ ~Contains(SenderOf(last.msgs[id]), email_address)}

\* the first message raises, the second has a non-OK status, the third is
\* returned
C12_Witness ==
    /\ last.op = "fetch"
    /\ last.considered = <<3, 2, 1>>
    /\ last.msgs[3] = "raise"
    /\ last.msgs[2] = "none"
    /\ last.emails = <<1>>

\* C13: the search issued by fetch_unanswered_emails matches a message
\* exactly when it is unseen and was received within the 8 hours before the
\* call; a message received more than 8 hours before the call is not matched,
\* at whatever hour the call is made.
C13_EightHourWindow ==
    search_out.state = "done" =>
        (search_out.matched <=>
            /\ search_in.unseen
            /\ search_in.now - search_in.received <= lookback_hours)

\* C14: fetch_unanswered_emails called on a client that is not connected
\* performs the connect itself.  When that connect fails it returns the empty
\* list without issuing a search; when it succeeds the client is left
\* connected, and a search that matches nothing yields the empty list.
C14_LazyConnect ==
    (last.op = "fetch" /\ last.lazy) =>
        /\ last.ret = "List"
        /\ last.failed = "connect" =>
             /\ last.emails = <<>>
             /\ ~last.searched
             /\ ~connected
        /\ last.failed # "connect" =>
             /\ connected
             /\ imap_pool
        /\ (last.failed = "-" /\ last.ids = <<>>) => last.emails = <<>>

\* the first session the client ever opened was opened by a fetch, whose
\* search matched nothing
C14_Witness ==
    /\ last.op = "fetch"
    /\ last.lazy
    /\ next_read = 1
    /\ last.failed = "-"
    /\ last.searched
    /\ last.ids = <<>>
    /\ last.emails = <<>>
    /\ connected

\* C15: whenever an operation of the client has returned, the client is
\* either Connected (is_connected is true and a read pool exists) or
\* Disconnected (is_connected is false and the client holds no open read
\* session), also after a connect that fails part-way.
C15_ConnectedOrDisconnected ==
    last.op # "none" =>
        \/ connected /\ imap_pool
        \/ /\ ~connected
           /\ ~(imap_pool /\ pool_connection \in open_read)

\* C16: a reconnect (disconnect followed by connect) closes and logs out the
\* read session the client held, whatever folder state that session was in;
\* afterwards the previous session is no longer logged in and, when the
\* connect succeeded, the client uses a newly created session.
C16_ReconnectTearsDown ==
    (last.op = "reconnect" /\ last.prev # 0) =>
        /\ last.prev \notin open_read
        /\ last.ret = "True" =>
             /\ pool_connection # last.prev
             /\ pool_connection = next_read
             /\ pool_connection \in open_read

AllAborts ==
    \A i \in 1..Len(exec_in.outcomes) :
        exec_in.outcomes[i] = IF exec_in.kind = "imap" THEN "IMAP4.abort"
                              ELSE "SMTPServerDisconnected"

\* C17: an operation run through execute_imap_operation or
\* execute_smtp_operation that fails with a transport abort or a server
\* disconnect on every attempt is retried per the policy: max_retries
\* additional attempts, each after a wait, are made before the
\* ConnectionError reaches the caller.
C17_AbortRetried ==
    (exec_out.state = "done" /\ AllAborts) =>
        /\ exec_out.result = "raised"
        /\ exec_out.error.type = "ConnectionError"
        /\ exec_out.calls = exec_in.max_retries + 1
        /\ Len(exec_out.waits) = exec_in.max_retries

NonRetryable(type, exceptions) ==
    type # "ok" /\ ClassesOf(type) \cap exceptions = {}

\* C18: an error whose kind is not in the retryable set leaves
\* retry_on_failure on the attempt that raised it: that attempt is the last
\* call of the operation and no wait follows it.
C18_NonRetryablePropagates ==
    retry_out.state = "done" =>
        \A k \in 0..retry_in.max_retries :
            (/\ retry_out.calls >= k + 1
             /\ NonRetryable(retry_in.outcomes[k + 1], retry_in.exceptions))
            => /\ retry_out.result = "raised"
               /\ retry_out.error =
                    [type |-> retry_in.outcomes[k + 1], attempt |-> k]
               /\ retry_out.calls = k + 1
               /\ Len(retry_out.waits) = k

\* a retryable failure, then a ConnectionError under a policy that retries
\* IMAP4.error only: two calls, one wait
C18_Witness ==
    /\ retry_out.state = "done"
    /\ retry_in.max_retries = default_max_retries
    /\ retry_in.exceptions = {"IMAP4.error"}
    /\ retry_in.outcomes[1] = "IMAP4.error"
    /\ retry_in.outcomes[2] = "ConnectionError"
    /\ retry_out.calls = 2
    /\ retry_out.waits = <<1>>

\* C19: the wait after failed attempt k is backoff_factor^k seconds (1, 2, 4
\* under the default policy), and there is exactly one wait between two
\* consecutive attempts: none before the first attempt, none after a
\* successful attempt and none after the final failed attempt.
C19_BackoffWaits ==
    retry_out.state = "done" =>
        /\ Len(retry_out.waits) = retry_out.calls - 1
        /\ \A i \in 1..Len(retry_out.waits) :
              retry_out.waits[i] = <<1, 2, 4, 8, 16>>[i]

\* the default policy has run out of attempts after waiting 1, 2 and 4 seconds
C19_Witness ==
    /\ retry_out.state = "done"
    /\ retry_in.max_retries = default_max_retries
    /\ retry_out.result = "raised"
    /\ retry_out.calls = 4
    /\ retry_out.waits = <<1, 2, 4>>

\* C20: create_imap_connection and create_smtp_connection raise
\* AuthenticationError exactly when the server rejects the credentials at
\* login, and ConnectionError for every transport or negotiation error, also
\* for one that happens during the login exchange.
C20_AuthVersusConnection ==
    create_out.state = "done" =>
        /\ create_out.imap = "AuthenticationError" <=>
             (create_in.ce.open = "ok" /\ create_in.ce.login = "error")
        /\ create_out.imap = "ConnectionError" <=>
             \/ create_in.ce.open # "ok"
             \/ create_in.ce.login \in {"abort", "oserror"}
        /\ create_out.smtp = "AuthenticationError" <=>
             create_in.me.login = "auth"
        /\ create_out.smtp = "ConnectionError" <=>
             create_in.me.login \notin {"ok", "auth"}

LazyCallConnectFailed ==
    /\ last.op \in {"fetch", "draft", "send"}
    /\ last.lazy
    /\ last.trace.first \in {"open failed", "login failed"}

\* C21 (as stated): when fetch_unanswered_emails, create_draft_reply or
\* send_reply is called on a disconnected client and the read-session
\* creation fails, exactly one session-creation attempt and one login attempt
\* have been made when the call returns its soft-fail value.
C21_OneCreationOneLogin ==
    LazyCallConnectFailed =>
        /\ last.failed = "connect"
        /\ last.trace.creates = 1
        /\ last.trace.logins = 1

\* C21 (amended): in such a call exactly one session-creation attempt has
\* been made when it returns its soft-fail value (the empty list or false),
\* and the login has been attempted once when the transport could be opened
\* and not at all when it could not; nothing is retried.
C21_SingleConnectAttempt ==
    LazyCallConnectFailed =>
        /\ last.failed = "connect"
        /\ last.ret = IF last.op = "fetch" THEN "List" ELSE "False"
        /\ last.emails = <<>>
        /\ last.trace.creates = 1
        /\ last.trace.gets = 1
        /\ last.trace.logins =
             IF last.trace.first = "login failed" THEN 1 ELSE 0

\* send_reply on a disconnected client whose login is rejected: one creation,
\* one login, false
C21_Witness ==
    /\ last.op = "send"
    /\ last.lazy
    /\ last.trace.first = "login failed"
    /\ last.trace.creates = 1
    /\ last.trace.logins = 1
    /\ last.ret = "False"

\* C28: on a connected client, a fetch_unanswered_emails or
\* create_draft_reply call whose probe finds the pooled session dead
\* recreates the session within that call: when the server accepts the
\* creation the call goes on with the new session, which is the one stored,
\* and the client stays connected; this holds as well when the stored handle
\* is one that an earlier failed recreation left behind.
C28_SessionRecovery ==
    (last.op \in {"fetch", "draft"} /\ ~last.lazy /\ last.trace.gets = 1) =>
        /\ connected
        /\ (last.trace.stored = 0 \/ last.trace.probe # "OK") =>
             /\ last.trace.creates = 1
             /\ IF last.trace.first = "ok"
                THEN /\ last.trace.created = next_read
                     /\ last.trace.created # last.trace.stored
                     /\ pool_connection = last.trace.created
                     /\ pool_connection \in open_read
                     /\ last.failed # "get_connection"
                ELSE last.failed = "get_connection"
        /\ (last.trace.stored # 0 /\ last.trace.probe = "OK") =>
             /\ last.trace.creates = 0
             /\ pool_connection = last.trace.stored

\* a fetch found the handle of a session that an earlier failed recreation
\* had logged out, created a new session and searched with it
C28_Witness ==
    /\ last.op = "fetch"
    /\ ~last.lazy
    /\ last.trace.stored # 0
    /\ ~last.trace.storedOpen
    /\ last.trace.created # 0
    /\ last.searched
    /\ pool_connection = last.trace.created

IsPrefix(s, t) == Len(s) <= Len(t) /\ SubSeq(t, 1, Len(s)) = s

UpgradeDue == create_in.config.use_starttls /\ create_in.config.smtp_port # 465

FirstStep == IF create_in.config.smtp_port = 465 THEN "SMTP_SSL" ELSE "SMTP"

\* C30: create_smtp_connection performs its steps in the order open
\* transport, EHLO, STARTTLS, second EHLO, login (stopping at the step that
\* fails).  The STARTTLS upgrade and the second EHLO are part of the order if
\* and only if use_starttls is set and the port is not 465; with port 465 the
\* transport is opened with direct TLS and STARTTLS is never negotiated; a
\* session is returned only after the whole order has been performed.
C30_SmtpStepOrder ==
    create_out.state = "done" =>
        /\ IF UpgradeDue
           THEN \/ IsPrefix(create_out.steps,
                            <<FirstStep, "ehlo", "starttls", "ehlo", "login">>)
                \/ IsPrefix(create_out.steps,
                            <<FirstStep, "ehlo", "starttls", "starttls relaxed",
                              "ehlo", "login">>)
           ELSE IsPrefix(create_out.steps, <<FirstStep, "ehlo", "login">>)
        /\ create_out.smtp = "none" =>
             /\ create_out.steps[Len(create_out.steps)] = "login"
             /\ Len(create_out.steps) = IF UpgradeDue
                                        THEN 4 + Len(StartTlsSteps(create_in.me))
                                        ELSE 3

\* port 465 with the STARTTLS flag set: direct TLS, no upgrade, logged in
C30_Witness ==
    /\ create_out.state = "done"
    /\ create_in.config = [smtp_port |-> 465, use_starttls |-> TRUE]
    /\ create_out.smtp = "none"
    /\ create_out.steps = <<"SMTP_SSL", "ehlo", "login">>

(***************************************************************************)
(* Thread ids and bodies of decoded messages.                              *)
(***************************************************************************)
Emails == {decode_out.emails[i] : i \in 1..Len(decode_out.emails)}

\* the header is there and its value is more than whitespace
NonBlank(header) ==
    header.present /\ \E i \in 1..Len(header.value) :
                         header.value[i] \notin Whitespace

\* t is v without the characters of chars that surround it
Trimmed(t, v, chars) ==
    \/ t = <<>> /\ \A k \in 1..Len(v) : v[k] \in chars
    \/ \E i, j \in 1..Len(v) :
         /\ i <= j
         /\ t = SubSeq(v, i, j)
         /\ v[i] \notin chars
         /\ v[j] \notin chars
         /\ \A k \in (1..(i - 1)) \cup ((j + 1)..Len(v)) : v[k] \in chars

Pieces(v) == {SubSeq(v, i, j) : i \in 1..(Len(v) + 1), j \in 0..Len(v)}

\* t is v without surrounding whitespace and angle brackets
Unbracketed(t, v) ==
    \E u \in Pieces(v) :
        Trimmed(u, v, Whitespace) /\ Trimmed(t, u, AngleBrackets)

\* tok is the first whitespace-separated token of v
FirstToken(tok, v) ==
    \E u \in Pieces(v) :
        /\ Trimmed(u, v, Whitespace)
        /\ \E n \in 1..Len(u) :
             /\ tok = SubSeq(u, 1, n)
             /\ \A k \in 1..n : u[k] \notin Whitespace
             /\ n = Len(u) \/ u[n + 1] \in Whitespace

\* C22: the threadId of every decoded Email is non-empty, whatever the
\* In-Reply-To, References and Message-ID headers hold: absent, blank or
\* nothing but angle brackets.
C22_ThreadIdNonEmpty == \A e \in Emails : e.threadId # <<>>

\* C23: the decoded threadId is the In-Reply-To value if that header is
\* there, else the first whitespace-separated token of References, else the
\* Message-ID, each without its surrounding angle brackets, else a freshly
\* generated identifier; In-Reply-To wins over a different References, and
\* two decodes without any of the three headers get different identifiers.
C23_ThreadIdChain ==
    /\ \A e \in Emails :
         IF NonBlank(decode_in.in_reply_to)
         THEN Unbracketed(e.threadId, decode_in.in_reply_to.value)
         ELSE IF NonBlank(decode_in.references)
         THEN \E tok \in Pieces(decode_in.references.value) :
                /\ FirstToken(tok, decode_in.references.value)
                /\ Trimmed(e.threadId, tok, AngleBrackets)
         ELSE IF NonBlank(decode_in.message_id)
         THEN Unbracketed(e.threadId, decode_in.message_id.value)
         ELSE e.threadId \in {uuid4(n) : n \in 1..decode_out.uuids}
    /\ (/\ Len(decode_out.emails) = 2
        /\ ~NonBlank(decode_in.in_reply_to)
        /\ ~NonBlank(decode_in.references)
        /\ ~NonBlank(decode_in.message_id))
       => decode_out.emails[1].threadId # decode_out.emails[2].threadId

\* In-Reply-To <a> and References <b> <c>: the thread id is a
C23_Witness ==
    /\ decode_in.in_reply_to = Header(<<"<", "a", ">">>)
    /\ decode_in.references = Header(<<"<", "b", ">", " ", "<", "c", ">">>)
    /\ decode_out.emails # <<>>
    /\ decode_out.emails[1].threadId = <<"a">>

\* C24: decoding the same raw message twice yields identical Email values,
\* with the same threadId and the same normalized body, for every raw
\* message.
C24_IdempotentDecode ==
    Len(decode_out.emails) = 2 =>
        decode_out.emails[1] = decode_out.emails[2]

\* the parts of the given content type that are not attachments
Eligible(parts, content_type) ==
    {i \in 1..Len(parts) : /\ parts[i].content_type = content_type
                           /\ ~parts[i].attachment}

\* those of them whose declared charset can be decoded
Decodable(parts, content_type) ==
    {i \in Eligible(parts, content_type) : parts[i].charset_known}

\* those of them that show any text once the tags are removed
Visible(parts, content_type) ==
    {i \in Decodable(parts, content_type) : parts[i].payload = "words"}

First(S) == CHOOSE i \in S : \A j \in S : i <= j

\* the normalized text of part i, and of part i with its tags removed
TextOf(parts, i) ==
    IF parts[i].payload \in {"", "blank"}
    THEN EmptyBody
    ELSE [part |-> i, payload |-> parts[i].payload, decoded |-> TRUE,
          stripped |-> FALSE, cleaned |-> TRUE]

StrippedTextOf(parts, i) ==
    IF parts[i].payload \in {"", "blank", "tags"}
    THEN EmptyBody
    ELSE [part |-> i, payload |-> parts[i].payload, decoded |-> TRUE,
          stripped |-> TRUE, cleaned |-> TRUE]

\* C25 as stated: the body of a multi-part message is the text of the first
\* text/plain part that is not an attachment, whatever the order of the
\* parts; only when there is no such part is it the tag-stripped text of the
\* first text/html part that is not an attachment.
C25_FirstPlainElseFirstHtml ==
    \A e \in Emails :
        decode_in.is_multipart =>
            IF Eligible(decode_in.parts, "text/plain") # {}
            THEN e.body = TextOf(decode_in.parts,
                                 First(Eligible(decode_in.parts,
                                                "text/plain")))
            ELSE Eligible(decode_in.parts, "text/html") # {} =>
                   e.body = StrippedTextOf(decode_in.parts,
                                           First(Eligible(decode_in.parts,
                                                          "text/html")))

\* C25: the body of a multi-part message is the text of the first text/plain
\* part that is not an attachment and whose charset can be decoded, whatever
\* the order of the parts; only when there is no such part is it the
\* tag-stripped text of the first text/html part that is not an attachment,
\* can be decoded and has visible text, and it is empty when there is none.
C25_FirstDecodablePlain ==
    \A e \in Emails :
        decode_in.is_multipart =>
            IF Decodable(decode_in.parts, "text/plain") # {}
            THEN e.body = TextOf(decode_in.parts,
                                 First(Decodable(decode_in.parts,
                                                 "text/plain")))
            ELSE IF Visible(decode_in.parts, "text/html") # {}
            THEN e.body = StrippedTextOf(decode_in.parts,
                                         First(Visible(decode_in.parts,
                                                       "text/html")))
            ELSE e.body = EmptyBody

\* a text/html part comes before the text/plain part and the plain text is
\* the body
C25_Witness ==
    /\ decode_in.is_multipart
    /\ decode_out.emails # <<>>
    /\ Len(decode_in.parts) >= 2
    /\ decode_in.parts[1] = Part("text/html", FALSE, TRUE, "words")
    /\ decode_in.parts[2] = Part("text/plain", FALSE, TRUE, "words")
    /\ decode_out.emails[1].body.part = 2
    /\ ~decode_out.emails[1].body.stripped

(***************************************************************************)
(* Reply messages.                                                         *)
(***************************************************************************)
\* the replies that were built, with the subject each one answers
BuiltReplies ==
    {i \in 1..Len(reply_out.replies) : reply_out.replies[i].raised = ""}

AnsweredSubject(i) ==
    IF i = 1
    THEN reply_in.original_email.subject
    ELSE reply_out.replies[i - 1].message.Subject.value

\* the subject starts with "Re:" in some letter case
StartsWithRe(subject) ==
    /\ Len(subject) >= 3
    /\ subject[1] \in {"R", "r"}
    /\ subject[2] \in {"E", "e"}
    /\ subject[3] = ":"

\* C26: the subject of a reply is the original subject unchanged when that
\* starts with "Re:" in any letter case, and "Re: " followed by the original
\* subject otherwise; a reply to a message that carries a reply subject gets
\* no second prefix.
C26_ReplySubject ==
    /\ \A i \in BuiltReplies :
         /\ reply_out.replies[i].message.Subject.present
         /\ reply_out.replies[i].message.Subject.value =
              IF StartsWithRe(AnsweredSubject(i))
              THEN AnsweredSubject(i)
              ELSE <<"R", "e", ":", " ">> \o AnsweredSubject(i)
    /\ Len(reply_out.replies) = 2 =>
         reply_out.replies[2].message.Subject =
           reply_out.replies[1].message.Subject

\* a reply to "m" and a reply to that reply are both "Re: m"; "re:m" is kept
C26_Witness ==
    /\ Len(reply_out.replies) = 2
    /\ \/ /\ reply_in.original_email.subject = <<"m">>
          /\ reply_out.replies[2].message.Subject.value =
               <<"R", "e", ":", " ", "m">>
       \/ /\ reply_in.original_email.subject = <<"r", "E", ":", "m">>
          /\ reply_out.replies[2].message.Subject.value =
               <<"r", "E", ":", "m">>

\* v is <unique@domain> with the domain of the sender address
AddressLike(v, sender_email) ==
    /\ Len(v) >= 5
    /\ v[1] = "<"
    /\ v[Len(v)] = ">"
    /\ \E k \in 3..(Len(v) - 2) :
         /\ v[k] = "@"
         /\ \A j \in 2..(k - 1) : v[j] \notin {"@", "<", ">"}
         /\ \E d \in 1..Len(sender_email) :
              /\ sender_email[d] = "@"
              /\ SubSeq(v, k + 1, Len(v) - 1) =
                   SubSeq(sender_email, d + 1, Len(sender_email))

\* C27: a reply built in draft mode has no Message-ID header; a reply built
\* in send mode has one, of the form <unique@domain> with the domain of the
\* sender address, and two replies built in send mode have different
\* Message-IDs.
C27_MessageIdOnlyWhenSending ==
    /\ \A i \in BuiltReplies :
         IF reply_in.send_mode
         THEN /\ reply_out.replies[i].message.MessageID.present
              /\ AddressLike(reply_out.replies[i].message.MessageID.value,
                             reply_in.sender_email)
         ELSE ~reply_out.replies[i].message.MessageID.present
    /\ (reply_in.send_mode /\ Len(reply_out.replies) = 2) =>
         reply_out.replies[1].message.MessageID #
           reply_out.replies[2].message.MessageID

\* two replies sent from b@y.z: two different Message-IDs at y.z
C27_Witness ==
    /\ reply_in.send_mode
    /\ reply_in.sender_email = <<"b", "@", "y", ".", "z">>
    /\ Len(reply_out.replies) = 2
    /\ reply_out.replies[1].message.MessageID.value =
         <<"<", "uuid", "1", "@", "y", ".", "z", ">">>
    /\ reply_out.replies[2].message.MessageID.value =
         <<"<", "uuid", "2", "@", "y", ".", "z", ">">>

(***************************************************************************)
(* Two callers of one pool.                                                *)
(***************************************************************************)
\* caller t has issued a command on a session that was logged out
UsedStale(t) == race.pc[t] = "used" /\ race.stale[t]

\* C29: the liveness check and the use of the pooled session are not atomic.
\* With two callers on one pool a caller can issue a command on a session
\* that was already closed, and whenever that happens the session was closed
\* by the recreation of the other caller, never by its own.
C29_StaleOnlyByOtherCaller ==
    \A t \in Callers :
        UsedStale(t) =>
            /\ race.handle[t] \in DOMAIN race.closed_by
            /\ race.closed_by[race.handle[t]] = Other(t)

\* a caller has used a session that the other caller's recreation closed
C29_Witness ==
    \E t \in Callers :
        /\ UsedStale(t)
        /\ race.handle[t] \in DOMAIN race.closed_by
        /\ race.closed_by[race.handle[t]] = Other(t)

(***************************************************************************)
(* The STARTTLS fallback of create_smtp_connection.                        *)
(***************************************************************************)
\* the number of times step x was performed
Times(steps, x) == Cardinality({i \in 1..Len(steps) : steps[i] = x})

\* the upgrade was due and reached, and the standard negotiation failed
StandardStartTlsFailed ==
    /\ create_out.state = "done"
    /\ UpgradeDue
    /\ create_in.me.open = "ok"
    /\ create_in.me.ehlo = "ok"
    /\ create_in.me.tls # "ok"

\* C31: if the standard STARTTLS negotiation of a write session fails,
\* exactly one further negotiation, with relaxed certificate verification, is
\* attempted, right after it; if that one fails too, create_smtp_connection
\* raises ConnectionError and no login is attempted.
C31_StartTlsFallback ==
    StandardStartTlsFailed =>
        /\ Times(create_out.steps, "starttls") = 1
        /\ Times(create_out.steps, "starttls relaxed") = 1
        /\ SubSeq(create_out.steps, 3, 4) = <<"starttls", "starttls relaxed">>
        /\ create_in.me.tls2 # "ok" =>
             /\ create_out.smtp = "ConnectionError"
             /\ Len(create_out.steps) = 4
             /\ Times(create_out.steps, "login") = 0

\* both negotiations failed: ConnectionError after four steps, no login
C31_Witness ==
    /\ StandardStartTlsFailed
    /\ create_in.me.tls2 # "ok"
    /\ create_out.smtp = "ConnectionError"
    /\ create_out.steps = <<"SMTP", "ehlo", "starttls", "starttls relaxed">>

(***************************************************************************)
(* send_reply: the order of its steps and what it leaves behind.           *)
(***************************************************************************)
\* C32: send_reply ensures the read-side connection before anything else:
\* when it is called on a client that is not connected and the connect fails
\* (the client is still not connected afterwards), it returns false, has not
\* called create_smtp_connection, has opened no write session and has
\* transmitted nothing.
C32_SendNeedsReadSide ==
    (last.op = "send" /\ last.lazy /\ ~connected) =>
        /\ last.ret = "False"
        /\ last.failed = "connect"
        /\ last.transport = "-"
        /\ last.smtp = 0
        /\ last.sent = "-"
        /\ last.sends = 0

\* a send_reply whose connect failed, on a server that has accepted no write
\* session so far and would accept one
C32_Witness ==
    /\ last.op = "send"
    /\ last.lazy
    /\ ~connected
    /\ last.failed = "connect"
    /\ last.ret = "False"
    /\ next_smtp = 0
    /\ next_smtp < MaxSmtp

\* C34: one send_reply call calls send_message at most once, whatever fails:
\* the set-up of the write session, the transmission or the quit.
C34_AtMostOneTransmission ==
    last.op = "send" =>
        /\ last.sends <= 1
        /\ last.sends = 1 <=> last.sent # "-"
        /\ last.failed = "create_smtp_connection" => last.sends = 0

\* a send_reply whose transmission and quit both failed: one transmission,
\* false
C34_Witness ==
    /\ last.op = "send"
    /\ last.sent = "raise"
    /\ last.quit = "raise"
    /\ last.sends = 1
    /\ last.ret = "False"

\* C35: when create_smtp_connection fails after it opened the transport
\* connection, that connection is closed when the error is raised: no
\* write-side connection outlives a failed session set-up of send_reply.
C35_FailedSetupClosesTransport ==
    (/\ last.op = "send"
     /\ last.failed = "create_smtp_connection"
     /\ last.transport # "none") => last.transport = "closed"

(***************************************************************************)
(* The folder a fetch searches.                                            *)
(***************************************************************************)
\* C36: fetch_unanswered_emails never searches a folder other than the inbox:
\* whatever folder the pooled session had selected before the call, a drafts
\* folder left by create_draft_reply included, a search the call issues runs
\* with INBOX selected.
C36_SearchOnlyInbox ==
    (last.op = "fetch" /\ last.searched) => last.searchFolder = "INBOX"

\* a fetch on the session on which a draft was saved to the drafts folder has
\* searched the inbox
C36_Witness ==
    /\ last.op = "fetch"
    /\ last.prevsel = drafts_folder
    /\ last.trace.created = 0
    /\ last.searched
    /\ last.searchFolder = "INBOX"

(***************************************************************************)
(* retry_on_failure: success after failures.                               *)
(***************************************************************************)
\* attempt k is the first one that succeeds and every attempt before it
\* raises an exception of the retryable types
SucceedsAt(k) ==
    /\ k \in 1..Len(retry_in.outcomes)
    /\ retry_in.outcomes[k] = "ok"
    /\ \A i \in 1..(k - 1) : retry_in.outcomes[i] \in retry_in.exceptions

\* C33: if the operation succeeds on its k-th attempt, k <= max_retries + 1,
\* after k - 1 retryable failures, the wrapper returns the result of that
\* attempt and has run the operation exactly k times: an operation that has
\* succeeded is not run again.
C33_SuccessStopsRetrying ==
    retry_out.state = "done" =>
        \A k \in 1..(retry_in.max_retries + 1) :
            SucceedsAt(k) =>
                /\ retry_out.result = "returned"
                /\ retry_out.value = k
                /\ retry_out.calls = k
                /\ Len(retry_out.waits) = k - 1

\* the last attempt the default policy allows is the one that succeeds
C33_Witness ==
    /\ retry_out.state = "done"
    /\ retry_in.max_retries = default_max_retries
    /\ SucceedsAt(default_max_retries + 1)
    /\ retry_out.result = "returned"
    /\ retry_out.calls = default_max_retries + 1

(***************************************************************************)
(* The draft loop of the triage workflow.                                  *)
(***************************************************************************)
\* C37: entered with trials = 0, the loop write_draft_email ->
\* verify_generated_email -> must_rewrite runs write_draft_email at most 3
\* times for one email: every call of write_draft_email increments trials,
\* whether the writer delivers or fails, must_rewrite returns rewrite only
\* while the draft is not sendable and trials < 3, and after the third call
\* it returns send or stop.
C37_RewriteLoopBounded ==
    /\ flow.writes <= 3
    /\ flow.trials = flow.writes
    /\ (flow.decision = "rewrite" /\ flow.next = "write_draft_email") =>
         /\ ~flow.sendable
         /\ flow.trials < 3
    /\ (flow.writes = 3 /\ flow.next \in {"write_draft_email", "done"}) =>
         /\ flow.next = "done"
         /\ flow.decision \in {"send", "stop"}

\* the writer failed on each of three calls and must_rewrite stopped the loop
C37_Witness ==
    /\ flow.next = "done"
    /\ flow.decision = "stop"
    /\ flow.writes = 3
    /\ flow.failures = 3
====
